---------------------------- MODULE Spec2Model ----------------------------
(***************************************************************************)
(* A model of the search engine of src/filefinder.py (class Fileder and    *)
(* its helpers RetryHandler and ProgressTracker).                          *)
(*                                                                         *)
(* Strings are sequences of one-character strings, so that prefix, suffix  *)
(* and substring tests are computed as the code computes them.             *)
(*                                                                         *)
(* The specifications of the module:                                       *)
(*   SpecSearch    one call of Fileder.search_in_file                      *)
(*   SpecContext   the same on text files, with the context of a match     *)
(*   SpecBinary    one call of Fileder.is_binary_file                      *)
(*   SpecWalk      one call of Fileder.search_in_directory                 *)
(*   SpecWalkTimed the same with a clock that runs freely                  *)
(*   SpecWalkTwice two calls of search_in_directory in a row               *)
(*   SpecWalkFlat  a call with recursive = False                           *)
(*   SpecGate      the calls a walker makes to one RetryHandler            *)
(*   SpecProbe     the gate's probe of a directory of any size             *)
(*   SpecArch      one call of Fileder.search_in_archives                  *)
(*   SpecPersist   save_results and load_results                           *)
(***************************************************************************)
EXTENDS Integers, Sequences, FiniteSets, TLC

VARIABLES
    \* ---- search_in_file ------------------------------------------------
    sPc,        \* "call" before the call, "ret" after it
    sContent,   \* the file's content, a sequence of characters
    sPattern,   \* the pattern searched for
    sCase,      \* case_sensitive
    sBinary,    \* the verdict of is_binary_file for the file
    sPath,      \* which path through search_in_file the call took
    sResults,   \* the list the call returned
    sContextChars,  \* config["general"]["context_chars"]
    sName,      \* the name of the file
    sReadable,  \* whether the file can be opened and read
    \* ---- search_in_directory -------------------------------------------
    cfg,        \* self.config and the call's arguments, fixed during a call
    wPc,        \* "idle", "walking" or "returned"
    stack,      \* the active calls of traverse_dir, innermost last
    results,    \* the nonlocal list results
    errors,     \* the nonlocal counter errors
    progress,   \* the ProgressTracker's counters
    skip_directories,   \* RetryHandler.skip_directories
    now,        \* time.time()
    wStart,     \* progress.start_time
    faults,     \* how many failures the environment has produced
    wOutcome,   \* history: what became of each directory
    wDispatched,    \* history: the file paths submitted to a pool
    wUnexpected,    \* history: how many unexpected exceptions were raised
                    \* in file searches, listings and directory processing
    wLate,      \* history: work begun after the timeout had elapsed
    wWorkers,   \* history: what the workers and the pre-filter did
    wStats,     \* the stats the call returned
    wRun,       \* history: 1 in the first call, 2 in the one that follows it
    wFirst,     \* history: what the first call returned and left behind
    \* ---- search_in_archives --------------------------------------------
    aPc,        \* "idle", "discover", "process" or "returned"
    aTree,      \* the archive files of the searched tree
    aScratch,   \* the scratch root: "absent", "stale" (left by an earlier
                \* run) or "fresh", and what lies in its subdirectories
    aArchives,  \* the list archives
    aStats,     \* the dict stats
    aResults,   \* the list results
    aTodo,      \* the directories os.walk has yet to yield
    aLog,       \* history: what became of each archive processed
    aCreated,   \* history: the call created the scratch root
    aRmFailed,  \* history: the last shutil.rmtree(temp_dir) raised
    aTimedOut,  \* history: the global timeout ended a loop over files
    aSkip,      \* the call's RetryHandler.skip_directories
    aProgress,  \* the call's ProgressTracker
    aStart,     \* its start_time
    \* ---- save_results / load_results -----------------------------------
    pPc,        \* "idle", "saved" or "loaded"
    pEnabled,   \* config["output"]["save_results"]
    pArgs,      \* the arguments of save_results
    pFile,      \* what save_results returned: a path or None
    pDisk,      \* the content of the results file
    pLoaded,    \* what load_results returned
    pUnreadable, \* history: load_results could not open the file
    \* ---- RetryHandler ---------------------------------------------------
    gRoot,      \* the directory the walker was called on
    gSkip,      \* skip_directories
    gCalled,    \* history: the directories the gate was asked about
    gRefused,   \* history: those for which it returned False
    gLast       \* history: the last call, with the SkipSet before it

searchVars == <<sPc, sContent, sPattern, sCase, sBinary, sPath, sResults,
                sContextChars, sName, sReadable>>

walkVars == <<wPc, stack, results, errors, progress, skip_directories,
              wStart, wOutcome, wDispatched, wUnexpected, wLate, wWorkers, wStats>>

\* The record of an earlier call of search_in_directory.
againVars == <<wRun, wFirst>>

archVars == <<aPc, aTree, aScratch, aArchives, aStats, aResults, aTodo, aLog,
              aCreated, aRmFailed, aTimedOut, aSkip, aProgress, aStart>>

persistVars == <<pPc, pEnabled, pArgs, pFile, pDisk, pLoaded, pUnreadable>>

gateVars == <<gRoot, gSkip, gCalled, gRefused, gLast>>

\* The settings, the clock and the environment's failures so far.
sharedVars == <<cfg, now, faults>>

\* What a call of search_in_directory leaves alone.
nonWalkVars == <<searchVars, archVars, persistVars, againVars, gateVars>>

\* What a call of search_in_file leaves alone.
nonSearchVars == <<walkVars, againVars, archVars, persistVars, gateVars,
                   sharedVars>>

\* What a call of search_in_archives leaves alone.
nonArchVars == <<searchVars, walkVars, againVars, persistVars, gateVars>>

\* What save_results and load_results leave alone.
nonPersistVars == <<searchVars, walkVars, againVars, archVars, gateVars,
                    sharedVars>>

\* What a call of handle_directory_access leaves alone.
nonGateVars == <<searchVars, walkVars, againVars, archVars, persistVars,
                 sharedVars>>

vars == <<searchVars, walkVars, againVars, archVars, persistVars, gateVars,
          sharedVars>>

-----------------------------------------------------------------------------
(* Bounds of the model *)

MaxContentLen == 4
MaxPatternLen == 2
\* The depth of the deepest directory of the tree that is searched.
TreeDepth == 3
\* max_depth is drawn from 0..MaxDepthCfg.
MaxDepthCfg == 2
\* timeout_seconds is 0 or TimeoutCfg.
TimeoutCfg == 1
\* The clock runs from 0 to MaxTime.
MaxTime == 2
\* The environment makes at most MaxFaults operations fail during one call.
MaxFaults == 1
\* The searched tree holds MaxArchives archive files.
MaxArchives == 2
\* The context of a saved match has at most MaxStrLen characters.
MaxStrLen == 2
\* context_chars is drawn from 0..MaxContextChars.
MaxContextChars == 1
\* A directory the gate probes holds at most MaxEntries entries.
MaxEntries == 11

(* Program constants *)

\* DEFAULT_CONFIG["general"]["max_file_size_mb"]
MaxFileSizeMb == 100
\* 1024 * 1024
MiB == 1048576

-----------------------------------------------------------------------------
(* Strings *)

NL == "\n"

\* The characters file contents and patterns are drawn from.
Alphabet == {"a", "A", NL}

SeqsUpTo(S, n) == UNION {[1..k -> S] : k \in 0..n}

\* str.lower() / bytes.lower() on one character of the alphabet.
UpperCase == <<"A", "T", "X">>
LowerCase == <<"a", "t", "x">>

LowerChar(c) ==
    IF \E i \in 1..Len(UpperCase) : UpperCase[i] = c
    THEN LowerCase[CHOOSE i \in 1..Len(UpperCase) : UpperCase[i] = c]
    ELSE c

Lower(s) == [i \in 1..Len(s) |-> LowerChar(s[i])]

\* str.startswith
StartsWith(s, p) == Len(p) <= Len(s) /\ SubSeq(s, 1, Len(p)) = p

\* str.endswith
EndsWith(s, p) ==
    Len(p) <= Len(s) /\ SubSeq(s, Len(s) - Len(p) + 1, Len(s)) = p

\* Whether p occurs in s at the 0-based offset i.
OccursAt(p, s, i) ==
    i >= 0 /\ i + Len(p) <= Len(s) /\ SubSeq(s, i + 1, i + Len(p)) = p

-----------------------------------------------------------------------------
(* search_in_file *)

\* [m.start() for m in re.finditer(re.escape(p), s)] for a non-empty literal
\* p: the scan goes left to right and resumes after the end of each match.
RECURSIVE FindIterFrom(_, _, _)
FindIterFrom(p, s, i) ==
    IF i + Len(p) > Len(s) THEN <<>>
    ELSE IF OccursAt(p, s, i)
         THEN <<i>> \o FindIterFrom(p, s, i + Len(p))
         ELSE FindIterFrom(p, s, i + 1)

FindIter(p, s) == FindIterFrom(p, s, 0)

\* Iterating a file opened in text mode: each line ends with its newline,
\* the last one possibly without.
RECURSIVE SplitLines(_)
SplitLines(s) ==
    IF s = <<>> THEN <<>>
    ELSE LET brk == {i \in 1..Len(s) : s[i] = NL}
         IN  IF brk = {} THEN <<s>>
             ELSE LET k == CHOOSE i \in brk : \A j \in brk : i <= j
                  IN  <<SubSeq(s, 1, k)>> \o SplitLines(SubSeq(s, k + 1, Len(s)))

\* The match records of one line of the text path.
LineMatches(line, lineNumber, pattern, caseSensitive) ==
    LET search_line    == IF caseSensitive THEN line ELSE Lower(line)
        search_pattern == IF caseSensitive THEN pattern ELSE Lower(pattern)
        positions      == FindIter(search_pattern, search_line)
    IN  [k \in 1..Len(positions) |->
            [line_number |-> lineNumber, position |-> positions[k],
             is_binary |-> FALSE]]

RECURSIVE TextMatchesFrom(_, _, _, _)
TextMatchesFrom(lines, n, pattern, caseSensitive) ==
    IF n > Len(lines) THEN <<>>
    ELSE LineMatches(lines[n], n, pattern, caseSensitive)
         \o TextMatchesFrom(lines, n + 1, pattern, caseSensitive)

\* The text path: line by line, line numbers from 1.
SearchText(content, pattern, caseSensitive) ==
    TextMatchesFrom(SplitLines(content), 1, pattern, caseSensitive)

\* The binary path: one scan over the whole content, line_number -1.
SearchBinary(content, pattern, caseSensitive) ==
    LET hay       == IF caseSensitive THEN content ELSE Lower(content)
        needle    == IF caseSensitive THEN pattern ELSE Lower(pattern)
        positions == FindIter(needle, hay)
    IN  [k \in 1..Len(positions) |->
            [line_number |-> -1, position |-> positions[k],
             is_binary |-> TRUE]]

\* The paths through search_in_file.
\*   "filtered"    should_process_file rejected the file
\*   "unreadable"  the existence / readability test failed
\*   "error"       an exception was raised and caught by the outer handler
\*   "fallback"    the text read raised UnicodeDecodeError
\*   "searched"    the file was read and scanned
SearchPaths == {"filtered", "unreadable", "error", "fallback", "searched"}

\* What search_in_file returns on each path.
search_in_file(content, pattern, caseSensitive, binary, path) ==
    CASE path \in {"filtered", "unreadable", "error"} -> <<>>
      [] path = "fallback" -> SearchBinary(content, pattern, caseSensitive)
      [] OTHER ->
            IF binary THEN SearchBinary(content, pattern, caseSensitive)
            ELSE SearchText(content, pattern, caseSensitive)

\* The characters str.strip() removes, as far as the alphabets hold them.
Whitespace == {" ", NL}

\* s[start:end] for 0 <= start and 0 <= end <= len(s).
Slice(s, start, end) == SubSeq(s, start + 1, end)

\* str.strip()
RECURSIVE Strip(_)
Strip(s) ==
    IF s = <<>> THEN s
    ELSE IF s[1] \in Whitespace THEN Strip(Tail(s))
    ELSE IF s[Len(s)] \in Whitespace THEN Strip(SubSeq(s, 1, Len(s) - 1))
    ELSE s

Max(a, b) == IF a >= b THEN a ELSE b
Min(a, b) == IF a <= b THEN a ELSE b

\* A context cut that forgets the length of the pattern.
TextContextWithoutPattern(line, pos, pattern, context_chars) ==
    Strip(Slice(line, Max(0, pos - context_chars),
                Min(Len(line), pos + context_chars)))

\* start = max(0, pos - context_chars)
\* end = min(len(line), pos + len(pattern) + context_chars)
\* context = line[start:end].strip()
TextContext(line, pos, pattern, context_chars) ==
    Strip(Slice(line, Max(0, pos - context_chars),
                Min(Len(line), pos + Len(pattern) + context_chars)))

\* bytes.hex() of one character of the alphabets.
HexOf(c) ==
    CASE c = "a" -> <<"6", "1">>
      [] c = "A" -> <<"4", "1">>
      [] c = " " -> <<"2", "0">>
      [] c = NL  -> <<"0", "a">>
      [] OTHER   -> <<"?", "?">>

RECURSIVE Hex(_)
Hex(s) == IF s = <<>> THEN <<>> ELSE HexOf(s[1]) \o Hex(Tail(s))

\* content[start:end].hex() of the binary path.
BinaryContext(content, pos, search_pattern, context_chars) ==
    Hex(Slice(content, Max(0, pos - context_chars),
              Min(Len(content), pos + Len(search_pattern) + context_chars)))

\* The records of one call with their 'context' key.
WithContext(recs, content, pattern, caseSensitive, context_chars) ==
    [k \in 1..Len(recs) |->
        [line_number |-> recs[k].line_number,
         position |-> recs[k].position,
         is_binary |-> recs[k].is_binary,
         context |->
            IF recs[k].is_binary
            THEN BinaryContext(content, recs[k].position,
                               IF caseSensitive THEN pattern
                               ELSE Lower(pattern), context_chars)
            ELSE TextContext(SplitLines(content)[recs[k].line_number],
                             recs[k].position, pattern, context_chars)]]

-----------------------------------------------------------------------------
(* Fileder.is_binary_file *)

\* TEXT_EXTENSIONS
TEXT_EXTENSIONS ==
    {<<".", "t", "x", "t">>, <<".", "p", "y">>, <<".", "j", "s">>,
     <<".", "h", "t", "m", "l">>, <<".", "c", "s", "s">>,
     <<".", "j", "s", "o", "n">>, <<".", "x", "m", "l">>,
     <<".", "c", "s", "v">>, <<".", "m", "d">>, <<".", "i", "n", "i">>,
     <<".", "c", "f", "g">>, <<".", "c", "o", "n", "f">>,
     <<".", "l", "o", "g">>, <<".", "c">>, <<".", "c", "p", "p">>,
     <<".", "h">>, <<".", "h", "p", "p">>, <<".", "j", "a", "v", "a">>,
     <<".", "s", "h">>, <<".", "b", "a", "t">>, <<".", "p", "s", "1">>,
     <<".", "y", "a", "m", "l">>, <<".", "y", "m", "l">>,
     <<".", "s", "q", "l">>, <<".", "p", "h", "p">>, <<".", "r", "b">>}

\* os.path.splitext(name)[1] for a base name: from the last dot on, where
\* the dots the name begins with do not count.
SplitExt(name) ==
    LET dots == {i \in 1..Len(name) :
                    /\ name[i] = "."
                    /\ \E j \in 1..(i - 1) : name[j] # "."}
    IN  IF dots = {} THEN <<>>
        ELSE SubSeq(name, CHOOSE i \in dots : \A j \in dots : i >= j,
                    Len(name))

\* mimetypes.guess_type(file_path)[0] for the extensions of the files that
\* are classified; <<>> is None.
MimeTable ==
    <<[ext |-> <<".", "t", "x", "t">>, mime |-> <<"t", "e", "x", "t", "/", "p", "l", "a", "i", "n">>],
      [ext |-> <<".", "t", "e", "x">>,
       mime |-> <<"t", "e", "x", "t", "/", "x", "-", "t", "e", "x">>],
      [ext |-> <<".", "x", "p", "d", "l">>,
       mime |-> <<"a", "p", "p", "l", "i", "c", "a", "t", "i", "o", "n", "/", "x", "m", "l">>],
      [ext |-> <<".", "b", "i", "n">>,
       mime |-> <<"a", "p", "p", "l", "i", "c", "a", "t", "i", "o", "n", "/", "o", "c", "t", "e", "t", "-", "s", "t", "r", "e", "a", "m">>]>>

GuessType(name) ==
    LET ext == Lower(SplitExt(name))
        rows == {i \in 1..Len(MimeTable) : MimeTable[i].ext = ext}
    IN  IF rows = {} THEN <<>> ELSE MimeTable[CHOOSE i \in rows : TRUE].mime

\* The prefixes of a MIME type that make a file a text file.
TextMimePrefixes ==
    {<<"t", "e", "x", "t", "/">>,
     <<"a", "p", "p", "l", "i", "c", "a", "t", "i", "o", "n", "/", "j", "s", "o", "n">>,
     <<"a", "p", "p", "l", "i", "c", "a", "t", "i", "o", "n", "/", "x", "m", "l">>}

\* The bytes of the files that are classified: a letter, NUL, the two bytes
\* of an e with acute accent in UTF-8, and a byte no UTF-8 text holds.
Nul == "00"
Lead == "c3"
Cont == "a9"
BadByte == "ff"
ByteAlphabet == {"a", Nul, Lead, Cont, BadByte}

\* f.read(1024)
SampleSize == 1024

Sample(content) ==
    SubSeq(content, 1, IF Len(content) < SampleSize THEN Len(content)
                       ELSE SampleSize)

\* Whether chunk.decode('utf-8') returns.
RECURSIVE Utf8Decodes(_)
Utf8Decodes(chunk) ==
    IF chunk = <<>> THEN TRUE
    ELSE IF chunk[1] \in {"a", Nul} THEN Utf8Decodes(Tail(chunk))
    ELSE IF chunk[1] = Lead
    THEN Len(chunk) >= 2 /\ chunk[2] = Cont
         /\ Utf8Decodes(SubSeq(chunk, 3, Len(chunk)))
    ELSE FALSE

\* A classification that samples the content before it looks at the name.
is_binary_file_sampling_first(name, content, readable) ==
    IF ~readable THEN TRUE
    ELSE IF \E i \in 1..Len(Sample(content)) : Sample(content)[i] = Nul
    THEN TRUE
    ELSE IF Lower(SplitExt(name)) \in TEXT_EXTENSIONS THEN FALSE
    ELSE IF \E p \in TextMimePrefixes : StartsWith(GuessType(name), p)
    THEN FALSE
    ELSE ~Utf8Decodes(Sample(content))

\* is_binary_file: TRUE for binary, FALSE for text.
is_binary_file(name, content, readable) ==
    IF Lower(SplitExt(name)) \in TEXT_EXTENSIONS THEN FALSE
    ELSE IF \E p \in TextMimePrefixes : StartsWith(GuessType(name), p)
    THEN FALSE
    ELSE IF ~readable THEN TRUE
    ELSE IF \E i \in 1..Len(Sample(content)) : Sample(content)[i] = Nul
    THEN TRUE
    ELSE ~Utf8Decodes(Sample(content))

-----------------------------------------------------------------------------
(* Paths and the directory tree that is searched *)

Sep == "/"

\* os.path.normpath: doubled separators collapse and a trailing separator
\* goes.
RECURSIVE CollapseSeps(_)
CollapseSeps(p) ==
    IF Len(p) <= 1 THEN p
    ELSE IF p[1] = Sep /\ p[2] = Sep THEN CollapseSeps(Tail(p))
    ELSE <<p[1]>> \o CollapseSeps(Tail(p))

StripTrailingSep(p) ==
    IF Len(p) > 1 /\ p[Len(p)] = Sep THEN SubSeq(p, 1, Len(p) - 1) ELSE p

\* The components of a path, empty ones included.
RECURSIVE SplitPath(_)
SplitPath(p) ==
    LET seps == {i \in 1..Len(p) : p[i] = Sep}
    IN  IF seps = {} THEN <<p>>
        ELSE LET k == CHOOSE i \in seps : \A j \in seps : i <= j
             IN  <<SubSeq(p, 1, k - 1)>> \o SplitPath(SubSeq(p, k + 1, Len(p)))

RECURSIVE JoinComponents(_)
JoinComponents(cs) ==
    IF Len(cs) = 1 THEN cs[1]
    ELSE cs[1] \o <<Sep>> \o JoinComponents(Tail(cs))

\* The components "." go; what is left of a relative path that held
\* nothing else is ".".
DropDots(p) ==
    LET kept == SelectSeq(SplitPath(p), LAMBDA c : c # <<>> /\ c # <<".">>)
    IN  IF kept = <<>> THEN <<".">> ELSE JoinComponents(kept)

\* os.path.normpath on the relative paths of the model, none of which
\* holds a component "..".
NormPath(p) == DropDots(StripTrailingSep(CollapseSeps(p)))

\* os.path.join(directory, name)
JoinPath(directory, name) ==
    IF directory # <<>> /\ directory[Len(directory)] = Sep
    THEN directory \o name
    ELSE directory \o <<Sep>> \o name

\* The directory argument as the caller gives it.
RootArg == <<"r", Sep>>

\* A directory is the sequence of entry names leading to it from the root.
NameB  == <<"b">>
NameBC == <<"b", "c">>
NameH  == <<".", "h">>
NameC  == <<"c">>

\* The chain r/b, r/b/c, r/b/c/c, ... of nested directories.
ChainDir(k) == [i \in 1..k |-> IF i = 1 THEN NameB ELSE NameC]

Dirs == {<<>>, <<NameBC>>, <<NameH>>} \cup {ChainDir(k) : k \in 1..TreeDepth}

RECURSIVE PathOf(_)
PathOf(d) ==
    IF d = <<>> THEN NormPath(RootArg)
    ELSE JoinPath(PathOf(SubSeq(d, 1, Len(d) - 1)), d[Len(d)])

\* The entries of d for which entry.is_dir() holds.
SubDirs(d) == {e \in Dirs : Len(e) = Len(d) + 1 /\ SubSeq(e, 1, Len(d)) = d}

TxtA   == <<"a", ".", "t", "x", "t">>
ZipN   == <<"n", ".", "z", "i", "p">>
TxtUp  == <<"A", ".", "T", "X", "T">>
MdM    == <<"m", ".", "m", "d">>
DotX   == <<".", "x">>
BigTxt == <<"g", ".", "t", "x", "t">>

File(name, content, size) == [name |-> name, content |-> content, size |-> size]

\* The entries of d for which entry.is_file() holds: name, content and size
\* in bytes.
FilesOf(d) ==
    CASE d = <<>> -> {File(TxtA, <<"a", "a">>, 2), File(ZipN, <<"a">>, 1)}
      [] d = <<NameBC>> -> {File(TxtUp, <<"A">>, 1)}
      [] d = <<NameH>> -> {File(TxtA, <<"a">>, 1)}
      [] d = ChainDir(1) ->
            {File(DotX, <<"a">>, 1),
             File(BigTxt, <<"a">>, MaxFileSizeMb * MiB + 1)}
      [] d = ChainDir(2) -> {File(MdM, <<"b">>, 1)}
      [] d = ChainDir(TreeDepth) /\ TreeDepth > 2 -> {File(TxtA, <<"a">>, 1)}
      [] OTHER -> {}

\* The pattern and the case_sensitive flag of the walk.
WalkPattern == <<"a">>
WalkCase == FALSE

-----------------------------------------------------------------------------
(* Fileder.should_process_file *)

ExtZip == <<".", "z", "i", "p">>
ExtTxt == <<".", "t", "x", "t">>

\* The filter settings the walk is tried with: excluded_extensions,
\* included_extensions and excluded_paths, each already split at commas.
FilterConfigs ==
    { [excluded_extensions |-> {}, included_extensions |-> {},
       excluded_paths |-> {}],
      [excluded_extensions |-> {ExtZip}, included_extensions |-> {},
       excluded_paths |-> {}],
      [excluded_extensions |-> {ExtZip}, included_extensions |-> {ExtZip, ExtTxt},
       excluded_paths |-> {}] }

HiddenName(name) == StartsWith(name, <<".">>)

TooLarge(size) == size > MaxFileSizeMb * MiB

InExcludedPath(file_path) ==
    \E excluded_path \in cfg.excluded_paths :
        StartsWith(NormPath(file_path), NormPath(excluded_path))

\* A filter that ignores excluded_extensions.
HasExcludedExtensionIgnored(file_path) == FALSE

HasExcludedExtension(file_path) ==
    \E ext \in cfg.excluded_extensions : EndsWith(Lower(file_path), ext)

LacksIncludedExtension(file_path) ==
    /\ cfg.included_extensions # {}
    /\ ~\E ext \in cfg.included_extensions : EndsWith(Lower(file_path), ext)

\* A pre-filter that lets every file pass.
should_process_file_always(file_path, f) == TRUE

should_process_file(file_path, f) ==
    /\ ~(HiddenName(f.name) /\ ~cfg.search_hidden_files)
    /\ ~TooLarge(f.size)
    /\ ~InExcludedPath(file_path)
    /\ ~HasExcludedExtension(file_path)
    /\ ~LacksIncludedExtension(file_path)

-----------------------------------------------------------------------------
(* RetryHandler *)

\* An add that keeps the path as it was given.
add_skip_directory_as_given(skip, directory) == skip \cup {directory}

add_skip_directory(skip, directory) == skip \cup {NormPath(directory)}

should_skip_directory(skip, directory) ==
    \E skip_dir \in skip : StartsWith(NormPath(directory), skip_dir)

\* What the environment does to one call of handle_directory_access:
\*   "ok"             the directory is readable and the probe passes
\*   "noaccess"       os.access(directory, R_OK) is false
\*   "probe_perm"     os.scandir raises PermissionError in the probe
\*   "probe_error"    os.scandir raises another exception in the probe
\*   "probe_timeout"  the probe finds timeout_seconds exceeded
GateEnv == {"ok", "noaccess", "probe_perm", "probe_error", "probe_timeout"}

\* handle_directory_access: whether access is granted, the SkipSet after
\* the call, and the branch taken.
handle_directory_access(skip, directory, env) ==
    IF should_skip_directory(skip, directory)
    THEN [granted |-> FALSE, skip |-> skip, why |-> "gate_skipset"]
    ELSE IF env = "noaccess"
    THEN [granted |-> FALSE, skip |-> add_skip_directory(skip, directory),
          why |-> "gate_noaccess"]
    ELSE IF cfg.timeout_seconds > 0 /\ env = "probe_timeout"
    THEN [granted |-> FALSE, skip |-> add_skip_directory(skip, directory),
          why |-> "gate_timeout"]
    ELSE IF cfg.timeout_seconds > 0 /\ env \in {"probe_perm", "probe_error"}
    THEN [granted |-> FALSE, skip |-> add_skip_directory(skip, directory),
          why |-> "gate_error"]
    ELSE [granted |-> TRUE, skip |-> skip, why |-> "granted"]

\* The directories a walker hands to one RetryHandler, by their names
\* below the root: the root, b, bc and b/c.
GateDirs == {<<>>, <<NameB>>, <<NameBC>>, <<NameB, NameC>>}

\* The root as the caller gives it: a directory r, or the working
\* directory.
GateRoots == {RootArg, <<".">>}

\* The path of a directory as os.walk and os.scandir build it.
RECURSIVE GatePath(_, _)
GatePath(root, d) ==
    IF d = <<>> THEN root
    ELSE JoinPath(GatePath(root, SubSeq(d, 1, Len(d) - 1)), d[Len(d)])

\* if i > 5: break
ProbeLimit == 5

\* A probe that goes through the whole directory.
RECURSIVE ProbeWithoutLimitFrom(_, _, _)
ProbeWithoutLimitFrom(i, entries, slow) ==
    IF i >= entries
    THEN [fetched |-> i, checked |-> i, timed_out |-> FALSE]
    ELSE IF slow # 0 /\ i + 1 >= slow
    THEN [fetched |-> i + 1, checked |-> i + 1, timed_out |-> TRUE]
    ELSE ProbeWithoutLimitFrom(i + 1, entries, slow)

ProbeWithoutLimit(entries, slow) == ProbeWithoutLimitFrom(0, entries, slow)

\* The loop of the probe from the entry with index i on, over a directory
\* of so many entries; the clock is past timeout_seconds from the moment
\* the entry number slow (counted from 1) is delivered, never if slow = 0.
\* It tells how many entries os.scandir delivered, for how many of them the
\* clock was read, and whether the timeout was found exceeded.
RECURSIVE ProbeFrom(_, _, _)
ProbeFrom(i, entries, slow) ==
    IF i >= entries
    THEN [fetched |-> i, checked |-> i, timed_out |-> FALSE]
    ELSE IF i > ProbeLimit
    THEN [fetched |-> i + 1, checked |-> i, timed_out |-> FALSE]
    ELSE IF slow # 0 /\ i + 1 >= slow
    THEN [fetched |-> i + 1, checked |-> i + 1, timed_out |-> TRUE]
    ELSE ProbeFrom(i + 1, entries, slow)

\* for i, _ in enumerate(os.scandir(directory)): ...
Probe(entries, slow) == ProbeFrom(0, entries, slow)

NoCall == [dir |-> <<>>, env |-> "ok", why |-> "granted", granted |-> TRUE,
           before |-> {}, entries |-> 0, slow |-> 0, fetched |-> 0,
           checked |-> 0]

\* One call of handle_directory_access for directory d, which holds so many
\* entries; the environment finds the probe timed out exactly when the
\* loop of the probe does.
GateCall(d, env, entries, slow) ==
        LET gate == handle_directory_access(gSkip, GatePath(gRoot, d), env)
            probe == Probe(entries, slow)
            probed == /\ cfg.timeout_seconds > 0
                      /\ gate.why \in {"granted", "gate_timeout"}
        IN  /\ env = "probe_timeout" => probe.timed_out
            /\ env = "ok" => ~probe.timed_out
            /\ gSkip' = gate.skip
            /\ gCalled' = gCalled \cup {d}
            /\ gRefused' = IF gate.granted THEN gRefused ELSE gRefused \cup {d}
            /\ gLast' = [dir |-> d, env |-> env, why |-> gate.why,
                         granted |-> gate.granted, before |-> gSkip,
                         entries |-> entries, slow |-> slow,
                         fetched |-> IF probed THEN probe.fetched ELSE 0,
                         checked |-> IF probed THEN probe.checked ELSE 0]
            /\ UNCHANGED gRoot
            /\ UNCHANGED nonGateVars

\* A walker asks about a directory after it has asked about the one above
\* it; the directories hold one entry, at which the probe may time out.
HandleDirectoryAccess ==
    \E d \in GateDirs, env \in GateEnv :
        /\ d # <<>> => SubSeq(d, 1, Len(d) - 1) \in gCalled
        /\ GateCall(d, env, 1, IF env = "probe_timeout" THEN 1 ELSE 0)

\* The gate is asked about a root of any size, with the clock running past
\* timeout_seconds at any of its entries or at none.
ProbeDirectory ==
    \E env \in {"ok", "probe_timeout"}, entries \in 0..MaxEntries :
        \E slow \in 0..entries :
            /\ gCalled \subseteq {<<>>}
            /\ GateCall(<<>>, env, entries, slow)

-----------------------------------------------------------------------------
(* ProgressTracker *)

NewProgress ==
    [files_searched |-> 0, files_skipped |-> 0, dirs_searched |-> 0,
     dirs_skipped |-> 0, matches_found |-> 0]

update_current_directory(p) == [p EXCEPT !.dirs_searched = @ + 1]
increment_files_searched(p, count) == [p EXCEPT !.files_searched = @ + count]
increment_files_skipped(p, count) == [p EXCEPT !.files_skipped = @ + count]
increment_dirs_skipped(p, count) == [p EXCEPT !.dirs_skipped = @ + count]
increment_matches_found(p, count) == [p EXCEPT !.matches_found = @ + count]

\* get_stats() with the key 'errors' the walker adds to it.
StatsWith(p, errs) ==
    [files_searched |-> p.files_searched, files_skipped |-> p.files_skipped,
     dirs_searched |-> p.dirs_searched, dirs_skipped |-> p.dirs_skipped,
     matches_found |-> p.matches_found, errors |-> errs]

NoStats == StatsWith(NewProgress, 0)

-----------------------------------------------------------------------------
(* Fileder.search_in_directory *)

\* The settings one call is made with; recursive is the argument of that
\* name, left at its default.
Configs ==
    { [max_depth |-> md, timeout_seconds |-> ts, search_hidden_files |-> hid,
       excluded_extensions |-> fc.excluded_extensions,
       included_extensions |-> fc.included_extensions,
       excluded_paths |-> fc.excluded_paths, root_is_dir |-> isdir,
       recursive |-> TRUE] :
      md \in 0..MaxDepthCfg, ts \in {0, TimeoutCfg}, hid \in BOOLEAN,
      fc \in FilterConfigs, isdir \in BOOLEAN }

\* A call that does not look at its root.
RootIsDirectoryUnchecked == TRUE

\* os.path.isdir(directory) for the root of the walk.
RootIsDirectory == cfg.root_is_dir

\* The outcomes of a directory.
\*   "unreached"     traverse_dir was not called on it
\*   "too_deep"      the depth check rejected it
\*   "gate_..."      handle_directory_access returned false (see there)
\*   "list_perm"     os.scandir raised PermissionError
\*   "list_err"      os.scandir raised another exception
\*   "proc_err"      an exception was raised after the listing
\*   "listed"        it was listed and its files were submitted
SkippedOutcomes ==
    {"too_deep", "gate_skipset", "gate_noaccess", "gate_timeout", "gate_error",
     "list_perm", "list_err", "proc_err"}

\* What the environment does to the listing of a directory and to the
\* partition of its entries.
ListEnv == {"ok", "list_perm", "list_err", "proc_err"}

\* What the environment does to one worker's call of search_in_file;
\* "raised" is an exception leaving search_in_file.
WorkerEnv == {"searched", "unreadable", "error", "raised"}

Top == stack[Len(stack)]
Pop == SubSeq(stack, 1, Len(stack) - 1)
ReplaceTop(frame) == [stack EXCEPT ![Len(stack)] = frame]

Frame(d, depth) ==
    [dir |-> d, depth |-> depth, phase |-> "enter", futs |-> <<>>,
     file_results |-> <<>>, dirsLeft |-> {}]

CanFail == faults < MaxFaults

\* if max_depth > 0 and current_depth > max_depth
\* A depth check that is off by one.
DepthExceededOffByOne(current_depth) ==
    cfg.max_depth > 0 /\ current_depth >= cfg.max_depth

DepthExceeded(current_depth) ==
    cfg.max_depth > 0 /\ current_depth > cfg.max_depth

\* The wall-clock time since the walk began exceeds timeout_seconds.
Expired == cfg.timeout_seconds > 0 /\ now - wStart > cfg.timeout_seconds

\* The files of d that are submitted to the pool.
Submitted(d) ==
    {f \in FilesOf(d) : should_process_file(JoinPath(PathOf(d), f.name), f)}

\* The records of one file with their 'file' key.
WithFile(file_path, recs) ==
    [k \in 1..Len(recs) |->
        [file |-> file_path, line_number |-> recs[k].line_number,
         position |-> recs[k].position, is_binary |-> recs[k].is_binary]]

\* Nothing has been filtered or searched yet.
NoWorkers == [returned |-> 0, raised |-> 0, rejected |-> 0]

\* The call of search_in_directory up to the call of traverse_dir.
WalkStart ==
    /\ wPc = "idle"
    /\ wStart' = now
    /\ IF ~RootIsDirectory
       THEN /\ progress' = increment_dirs_skipped(NewProgress, 1)
            /\ wStats' = StatsWith(progress', 1)
            /\ wPc' = "returned"
            /\ stack' = <<>>
       ELSE /\ progress' = NewProgress
            /\ stack' = <<Frame(<<>>, 0)>>
            /\ wPc' = "walking"
            /\ UNCHANGED wStats
    /\ results' = <<>>
    /\ errors' = 0
    /\ skip_directories' = {}
    /\ UNCHANGED <<cfg, now, faults, wOutcome, wDispatched, wUnexpected, wLate, wWorkers>>
    /\ UNCHANGED nonWalkVars

\* The matches of a list, with the number of times each occurs.
BagOf(recs) ==
    [r \in {recs[k] : k \in 1..Len(recs)} |->
        Cardinality({k \in 1..Len(recs) : recs[k] = r})]

NoFirst == [results |-> BagOf(<<>>), stats |-> NoStats, skip |-> {}, faults |-> 0]

\* A second call that goes on with the SkipSet of the first.
WalkAgainWithOldSkipSet ==
    /\ wPc = "returned" /\ wRun = 1
    /\ wRun' = 2
    /\ wFirst' = [results |-> BagOf(results), stats |-> wStats,
                  skip |-> skip_directories, faults |-> faults]
    /\ wStart' = now
    /\ IF ~RootIsDirectory
       THEN /\ progress' = increment_dirs_skipped(NewProgress, 1)
            /\ wStats' = StatsWith(progress', 1)
            /\ wPc' = "returned"
            /\ stack' = <<>>
       ELSE /\ progress' = NewProgress
            /\ stack' = <<Frame(<<>>, 0)>>
            /\ wPc' = "walking"
            /\ wStats' = NoStats
    /\ results' = <<>>
    /\ errors' = 0
    /\ skip_directories' = skip_directories
    /\ wOutcome' = [d \in Dirs |-> "unreached"]
    /\ wDispatched' = {}
    /\ wUnexpected' = 0
    /\ wLate' = FALSE
    /\ wWorkers' = NoWorkers
    /\ UNCHANGED <<cfg, now, faults>>
    /\ UNCHANGED <<searchVars, archVars, persistVars, gateVars>>

\* The same Fileder is asked to search the same directory again: the call
\* of search_in_directory up to the call of traverse_dir, once more.
WalkAgain ==
    /\ wPc = "returned" /\ wRun = 1
    /\ wRun' = 2
    /\ wFirst' = [results |-> BagOf(results), stats |-> wStats,
                  skip |-> skip_directories, faults |-> faults]
    /\ wStart' = now
    /\ IF ~RootIsDirectory
       THEN /\ progress' = increment_dirs_skipped(NewProgress, 1)
            /\ wStats' = StatsWith(progress', 1)
            /\ wPc' = "returned"
            /\ stack' = <<>>
       ELSE /\ progress' = NewProgress
            /\ stack' = <<Frame(<<>>, 0)>>
            /\ wPc' = "walking"
            /\ wStats' = NoStats
    /\ results' = <<>>
    /\ errors' = 0
    /\ skip_directories' = {}
    /\ wOutcome' = [d \in Dirs |-> "unreached"]
    /\ wDispatched' = {}
    /\ wUnexpected' = 0
    /\ wLate' = FALSE
    /\ wWorkers' = NoWorkers
    /\ UNCHANGED <<cfg, now, faults>>
    /\ UNCHANGED <<searchVars, archVars, persistVars, gateVars>>

\* A skip that leaves dirs_skipped as it is.
SkipDirUncounted(d, why, skip, errs, unexpected) ==
    /\ progress' = IF why \in {"list_perm", "list_err", "proc_err"}
                   THEN update_current_directory(progress) ELSE progress
    /\ skip_directories' = skip
    /\ errors' = errors + errs
    /\ wUnexpected' = wUnexpected + unexpected
    /\ wOutcome' = [wOutcome EXCEPT ![d] = why]
    /\ stack' = Pop
    /\ UNCHANGED <<results, wDispatched, wLate, wWorkers>>

\* traverse_dir returns on a directory it skips.
SkipDir(d, why, skip, errs, unexpected) ==
    /\ progress' = increment_dirs_skipped(
                      IF why \in {"list_perm", "list_err", "proc_err"}
                      THEN update_current_directory(progress) ELSE progress, 1)
    /\ skip_directories' = skip
    /\ errors' = errors + errs
    /\ wUnexpected' = wUnexpected + unexpected
    /\ wOutcome' = [wOutcome EXCEPT ![d] = why]
    /\ stack' = Pop
    /\ UNCHANGED <<results, wDispatched, wLate, wWorkers>>

\* traverse_dir from its entry to the submission of the directory's files.
EnterDir ==
    /\ wPc = "walking" /\ stack # <<>> /\ Top.phase = "enter"
    /\ LET d == Top.dir
           current_dir == PathOf(d)
       IN  IF DepthExceeded(Top.depth)
           THEN SkipDir(d, "too_deep", skip_directories, 0, 0)
                /\ UNCHANGED <<now, faults>>
           ELSE \E genv \in GateEnv, lenv \in ListEnv :
                LET gate == handle_directory_access(skip_directories,
                                                    current_dir, genv)
                    failed == gate.why \notin {"gate_skipset", "granted"}
                              \/ (gate.granted /\ lenv # "ok")
                IN  /\ genv # "ok" => failed
                    /\ lenv # "ok" => genv = "ok" /\ gate.granted
                    /\ failed => CanFail
                    /\ gate.why = "gate_timeout" =>
                          /\ (FilesOf(d) # {} \/ SubDirs(d) # {})
                          /\ now + cfg.timeout_seconds + 1 <= MaxTime
                    /\ now' = IF gate.why = "gate_timeout"
                              THEN now + cfg.timeout_seconds + 1 ELSE now
                    /\ faults' = IF failed THEN faults + 1 ELSE faults
                    /\ IF ~gate.granted
                       THEN SkipDir(d, gate.why, gate.skip, 0, 0)
                       ELSE IF lenv = "list_perm"
                       THEN SkipDir(d, "list_perm", gate.skip, 0, 0)
                       ELSE IF lenv = "list_err"
                       THEN SkipDir(d, "list_err", gate.skip, 1, 1)
                       ELSE IF lenv = "proc_err"
                       THEN SkipDir(d, "proc_err", gate.skip, 1, 1)
                       ELSE /\ progress' = update_current_directory(progress)
                            /\ stack' = ReplaceTop(
                                  [Top EXCEPT
                                     !.phase = "pool",
                                     !.futs = [n \in {f.name : f \in Submitted(d)}
                                                 |-> [st |-> "pending", res |-> <<>>]]])
                            /\ wOutcome' = [wOutcome EXCEPT ![d] = "listed"]
                            /\ wDispatched' = wDispatched \cup
                                  {JoinPath(current_dir, f.name) : f \in Submitted(d)}
                            /\ wLate' = (wLate \/ Expired)
                            /\ wWorkers' = [wWorkers EXCEPT !.rejected = @ +
                                  Cardinality(FilesOf(d) \ Submitted(d))]
                            /\ skip_directories' = gate.skip
                            /\ UNCHANGED <<results, errors, wUnexpected>>
    /\ UNCHANGED <<cfg, wPc, wStart, wStats>>
    /\ UNCHANGED nonWalkVars

\* A worker of the pool runs search_in_file on one submitted file.
WorkerRun ==
    /\ wPc = "walking" /\ stack # <<>> /\ Top.phase = "pool"
    /\ \E f \in Submitted(Top.dir), how \in WorkerEnv :
          /\ Top.futs[f.name].st = "pending"
          /\ how # "searched" => CanFail
          /\ faults' = IF how # "searched" THEN faults + 1 ELSE faults
          /\ wUnexpected' = IF how \in {"error", "raised"}
                            THEN wUnexpected + 1 ELSE wUnexpected
          /\ wWorkers' = IF how = "raised"
                         THEN [wWorkers EXCEPT !.raised = @ + 1]
                         ELSE [wWorkers EXCEPT !.returned = @ + 1]
          /\ stack' = ReplaceTop(
                [Top EXCEPT !.futs[f.name] =
                    IF how = "raised" THEN [st |-> "raised", res |-> <<>>]
                    ELSE [st |-> "done",
                          res |-> WithFile(
                              JoinPath(PathOf(Top.dir), f.name),
                              search_in_file(f.content, WalkPattern, WalkCase,
                                             FALSE, how))]])
    /\ UNCHANGED <<cfg, wPc, results, errors, progress, skip_directories, now,
                   wStart, wOutcome, wDispatched, wLate, wStats>>
    /\ UNCHANGED nonWalkVars

\* Counters updated without mutual exclusion: the futures that are complete
\* at the same moment are taken together, and their increments of one
\* counter overwrite each other so that only one of them remains.
CollectWithLostUpdate ==
    /\ wPc = "walking" /\ stack # <<>> /\ Top.phase = "pool"
    /\ \E name \in DOMAIN Top.futs :
          LET fu == Top.futs[name]
              ready == {n \in DOMAIN Top.futs :
                          Top.futs[n].st \in {"done", "raised"}}
          IN  /\ fu.st \in {"done", "raised"}
              /\ \A n \in ready : Top.futs[n].res = <<>> \/ n = name
              /\ IF fu.st = "done"
                 THEN /\ progress' = increment_files_searched(
                            IF fu.res # <<>>
                            THEN increment_matches_found(progress, Len(fu.res))
                            ELSE progress, 1)
                      /\ errors' = errors
                 ELSE /\ progress' = increment_files_skipped(progress, 1)
                      /\ errors' = errors + 1
              /\ stack' = ReplaceTop(
                    [Top EXCEPT !.futs = [n \in DOMAIN Top.futs |->
                                    IF n \in ready
                                    THEN [Top.futs[n] EXCEPT !.st = "collected"]
                                    ELSE Top.futs[n]],
                                !.file_results = @ \o fu.res])
    /\ UNCHANGED <<cfg, wPc, results, skip_directories, now, wStart, faults,
                   wOutcome, wDispatched, wUnexpected, wLate, wWorkers, wStats>>
    /\ UNCHANGED nonWalkVars

\* A collection that takes the matches of a file last match first.
CollectReversingMatches ==
    /\ wPc = "walking" /\ stack # <<>> /\ Top.phase = "pool"
    /\ \E name \in DOMAIN Top.futs :
          LET fu == Top.futs[name]
              reversed == [k \in 1..Len(fu.res) |-> fu.res[Len(fu.res) + 1 - k]]
          IN  /\ fu.st \in {"done", "raised"}
              /\ IF fu.st = "done"
                 THEN /\ progress' = increment_files_searched(
                            IF fu.res # <<>>
                            THEN increment_matches_found(progress, Len(fu.res))
                            ELSE progress, 1)
                      /\ errors' = errors
                 ELSE /\ progress' = increment_files_skipped(progress, 1)
                      /\ errors' = errors + 1
              /\ stack' = ReplaceTop(
                    [Top EXCEPT !.futs[name].st = "collected",
                                !.file_results = @ \o reversed])
    /\ UNCHANGED <<cfg, wPc, results, skip_directories, now, wStart, faults,
                   wOutcome, wDispatched, wUnexpected, wLate, wWorkers, wStats>>
    /\ UNCHANGED nonWalkVars

\* The walker takes one completed future from as_completed.
Collect ==
    /\ wPc = "walking" /\ stack # <<>> /\ Top.phase = "pool"
    /\ \E name \in DOMAIN Top.futs :
          LET fu == Top.futs[name]
          IN  /\ fu.st \in {"done", "raised"}
              /\ IF fu.st = "done"
                 THEN /\ progress' = increment_files_searched(
                            IF fu.res # <<>>
                            THEN increment_matches_found(progress, Len(fu.res))
                            ELSE progress, 1)
                      /\ errors' = errors
                 ELSE /\ progress' = increment_files_skipped(progress, 1)
                      /\ errors' = errors + 1
              /\ stack' = ReplaceTop(
                    [Top EXCEPT !.futs[name].st = "collected",
                                !.file_results = @ \o fu.res])
    /\ UNCHANGED <<cfg, wPc, results, skip_directories, now, wStart, faults,
                   wOutcome, wDispatched, wUnexpected, wLate, wWorkers, wStats>>
    /\ UNCHANGED nonWalkVars

\* A pool that is left without waiting for its workers: what has been
\* collected so far joins the results.
PoolDoneWithoutWaiting ==
    /\ wPc = "walking" /\ stack # <<>> /\ Top.phase = "pool"
    /\ LET skipped_files == Cardinality(FilesOf(Top.dir) \ Submitted(Top.dir))
       IN  progress' = IF skipped_files > 0
                       THEN increment_files_skipped(progress, skipped_files)
                       ELSE progress
    /\ results' = results \o Top.file_results
    /\ stack' = ReplaceTop([Top EXCEPT !.phase = "subdirs",
                                       !.dirsLeft = SubDirs(Top.dir)])
    /\ UNCHANGED <<cfg, wPc, errors, skip_directories, now, wStart, faults,
                   wOutcome, wDispatched, wUnexpected, wLate, wWorkers, wStats>>
    /\ UNCHANGED nonWalkVars

\* The end of a pool that forgets the files the pre-filter rejected.
PoolDoneWithoutSkippedFiles ==
    /\ wPc = "walking" /\ stack # <<>> /\ Top.phase = "pool"
    /\ \A name \in DOMAIN Top.futs : Top.futs[name].st = "collected"
    /\ results' = results \o Top.file_results
    /\ stack' = ReplaceTop([Top EXCEPT !.phase = "subdirs",
                                       !.dirsLeft = SubDirs(Top.dir)])
    /\ UNCHANGED <<cfg, wPc, errors, progress, skip_directories, now, wStart,
                   faults, wOutcome, wDispatched, wUnexpected, wLate, wWorkers,
                   wStats>>
    /\ UNCHANGED nonWalkVars

\* The pool has shut down: the directory's matches join the results and the
\* files the pre-filter rejected are counted.
PoolDone ==
    /\ wPc = "walking" /\ stack # <<>> /\ Top.phase = "pool"
    /\ \A name \in DOMAIN Top.futs : Top.futs[name].st = "collected"
    /\ LET skipped_files == Cardinality(FilesOf(Top.dir) \ Submitted(Top.dir))
       IN  progress' = IF skipped_files > 0
                       THEN increment_files_skipped(progress, skipped_files)
                       ELSE progress
    /\ results' = results \o Top.file_results
    /\ stack' = ReplaceTop([Top EXCEPT !.phase = "subdirs",
                                       !.dirsLeft = SubDirs(Top.dir)])
    /\ UNCHANGED <<cfg, wPc, errors, skip_directories, now, wStart, faults,
                   wOutcome, wDispatched, wUnexpected, wLate, wWorkers, wStats>>
    /\ UNCHANGED nonWalkVars

\* A recursion that does not wait for the end of the pool: it may enter a
\* subdirectory while the files of the directory are still being searched.
NextSubdirInsidePool ==
    /\ wPc = "walking" /\ stack # <<>> /\ Top.phase \in {"pool", "subdirs"}
    /\ \E e \in (IF Top.phase = "pool" THEN SubDirs(Top.dir) ELSE Top.dirsLeft) :
          LET rest == ReplaceTop([Top EXCEPT !.dirsLeft = @ \ {e}])
          IN  stack' = IF ~HiddenName(e[Len(e)]) \/ cfg.search_hidden_files
                       THEN Append(rest, Frame(e, Top.depth + 1))
                       ELSE rest
    /\ UNCHANGED <<cfg, wPc, results, errors, progress, skip_directories, now,
                   wStart, faults, wOutcome, wDispatched, wUnexpected, wLate,
                   wWorkers, wStats>>
    /\ UNCHANGED nonWalkVars

\* The loop over dirs takes its next entry and recurses into it, unless it
\* is a dot-directory and hidden files are not searched.
NextSubdir ==
    /\ wPc = "walking" /\ stack # <<>> /\ Top.phase = "subdirs"
    /\ \E e \in Top.dirsLeft :
          LET rest == ReplaceTop([Top EXCEPT !.dirsLeft = @ \ {e}])
          IN  stack' = IF ~HiddenName(e[Len(e)]) \/ cfg.search_hidden_files
                       THEN Append(rest, Frame(e, Top.depth + 1))
                       ELSE rest
    /\ UNCHANGED <<cfg, wPc, results, errors, progress, skip_directories, now,
                   wStart, faults, wOutcome, wDispatched, wUnexpected, wLate, wWorkers,
                   wStats>>
    /\ UNCHANGED nonWalkVars

\* traverse_dir returns after its last subdirectory.
LeaveDir ==
    /\ wPc = "walking" /\ stack # <<>> /\ Top.phase = "subdirs"
    /\ Top.dirsLeft = {}
    /\ stack' = Pop
    /\ UNCHANGED <<cfg, wPc, results, errors, progress, skip_directories, now,
                   wStart, faults, wOutcome, wDispatched, wUnexpected, wLate, wWorkers,
                   wStats>>
    /\ UNCHANGED nonWalkVars

\* search_in_directory returns (results, stats).
WalkFinish ==
    /\ wPc = "walking" /\ stack = <<>>
    /\ wStats' = StatsWith(progress, errors)
    /\ wPc' = "returned"
    /\ UNCHANGED <<cfg, stack, results, errors, progress, skip_directories,
                   now, wStart, faults, wOutcome, wDispatched, wUnexpected,
                   wLate, wWorkers>>
    /\ UNCHANGED nonWalkVars

\* Time passes during the walk.
Tick ==
    /\ wPc = "walking"
    /\ now < MaxTime
    /\ now' = now + 1
    /\ UNCHANGED <<cfg, wPc, stack, results, errors, progress,
                   skip_directories, wStart, faults, wOutcome, wDispatched,
                   wUnexpected, wLate, wWorkers, wStats>>
    /\ UNCHANGED nonWalkVars

-----------------------------------------------------------------------------
(* Fileder.extract_archived_file *)

\* if len(file_list) > 1000 / if len(members) > 1000
MaxArchiveEntries == 1000
\* total_size > max_file_size_mb * 1024 * 1024 * 10
SizeFactor == 10

ExtGz    == <<".", "g", "z">>
ExtTgz   == <<".", "t", "g", "z">>
ExtTarGz == <<".", "t", "a", "r", ".", "g", "z">>

ArchiveExtensions == {ExtZip, ExtTarGz, ExtTgz, ExtGz}

InnerTxt == <<"i", ".", "t", "x", "t">>

HugeTotal == MaxFileSizeMb * MiB * SizeFactor + 1

\* An archive file: its name, its size on disk, the number of its entries,
\* the sum of their declared uncompressed sizes, whether a member name is
\* an absolute path ("absolute") or holds ".." ("parent"), whether its
\* signature is good, and the name and content of its first member (the
\* other entries are files of the same kind that hold no occurrence of
\* the pattern).
Archive(name, size, entries, total, unsafe, valid) ==
    [name |-> name, size |-> size, entries |-> entries, total |-> total,
     unsafe |-> unsafe, valid |-> valid,
     member |-> [name |-> InnerTxt, content |-> <<"a">>]]

ZipName   == <<"z", ".", "z", "i", "p">>
TgzName   == <<"t", ".", "t", "g", "z">>
TarGzName == <<"t", ".", "t", "a", "r", ".", "g", "z">>
GzName    == <<"i", ".", "t", "x", "t", ".", "g", "z">>

\* The archives a searched directory may hold.
ArchiveKinds ==
    { Archive(ZipName, 1, 1, 1, "none", TRUE),
      Archive(ZipName, 1, MaxArchiveEntries, 1, "none", TRUE),
      Archive(ZipName, 1, MaxArchiveEntries + 1, 1, "none", TRUE),
      Archive(ZipName, 1, 1, HugeTotal, "none", TRUE),
      Archive(ZipName, 1, 1, 1, "none", FALSE),
      Archive(ZipName, MaxFileSizeMb * MiB + 1, 1, 1, "none", TRUE),
      Archive(TgzName, 1, 1, 1, "none", TRUE),
      Archive(TarGzName, 1, MaxArchiveEntries, 1, "none", TRUE),
      Archive(TgzName, 1, MaxArchiveEntries + 1, 1, "none", TRUE),
      Archive(TgzName, 1, 1, HugeTotal, "none", TRUE),
      Archive(TgzName, 1, 1, 1, "absolute", TRUE),
      Archive(TarGzName, 1, 1, 1, "parent", TRUE),
      Archive(GzName, 1, 1, 1, "none", TRUE) }

\* The archives that are taken without complaint.
SoundKinds ==
    { Archive(ZipName, 1, 1, 1, "none", TRUE),
      Archive(TgzName, 1, 1, 1, "none", TRUE) }

\* What the environment does to the processing of one archive:
\*   "ok"               nothing fails
\*   "makedirs_raises"  os.makedirs(archive_temp_dir) raises
\*   "unreadable"       the archive does not exist or is not readable
\*   "extract_raises"   extractall raises after writing
\*   "walk_raises"      an exception is raised after the extraction
\* Besides, shutil.rmtree may raise on a directory that holds extracted
\* files (an extracted entry may be one the process cannot delete).
ArchiveEnv ==
    {"ok", "makedirs_raises", "unreadable", "extract_raises", "walk_raises"}

Rejected == [ok |-> FALSE, written |-> {}]

ExtractZip(a, env) ==
    IF ~a.valid THEN Rejected
    ELSE IF a.entries > MaxArchiveEntries THEN Rejected
    ELSE IF a.total > MaxFileSizeMb * MiB * SizeFactor THEN Rejected
    ELSE IF env = "extract_raises"
    THEN [ok |-> FALSE, written |-> {a.member.name}]
    ELSE [ok |-> TRUE, written |-> {a.member.name}]

\* A tar branch that does not look at the member names.
ExtractTarNamesUnchecked(a, env) ==
    IF ~a.valid THEN Rejected
    ELSE IF a.entries > MaxArchiveEntries THEN Rejected
    ELSE IF env = "extract_raises"
    THEN [ok |-> FALSE, written |-> {a.member.name}]
    ELSE [ok |-> TRUE, written |-> {a.member.name}]

ExtractTar(a, env) ==
    IF ~a.valid THEN Rejected
    ELSE IF a.entries > MaxArchiveEntries THEN Rejected
    ELSE IF a.unsafe # "none" THEN Rejected
    ELSE IF env = "extract_raises"
    THEN [ok |-> FALSE, written |-> {a.member.name}]
    ELSE [ok |-> TRUE, written |-> {a.member.name}]

\* A single .gz file is written to extract_dir under its name less ".gz".
ExtractGz(a, env) ==
    LET output_file == SubSeq(a.name, 1, Len(a.name) - 3)
    IN  IF ~a.valid \/ env = "extract_raises"
        THEN [ok |-> FALSE, written |-> {output_file}]
        ELSE [ok |-> TRUE, written |-> {output_file}]

\* extract_archived_file: its return value and the names it wrote under
\* extract_dir.
extract_archived_file(archive_path, a, env) ==
    IF env = "unreadable" THEN Rejected
    ELSE IF a.size > MaxFileSizeMb * MiB THEN Rejected
    ELSE IF EndsWith(Lower(archive_path), ExtZip) THEN ExtractZip(a, env)
    ELSE IF EndsWith(Lower(archive_path), ExtTarGz)
            \/ EndsWith(Lower(archive_path), ExtTgz) THEN ExtractTar(a, env)
    ELSE IF EndsWith(Lower(archive_path), ExtGz)
            /\ ~EndsWith(Lower(archive_path), ExtTarGz) THEN ExtractGz(a, env)
    ELSE Rejected

-----------------------------------------------------------------------------
(* Fileder.search_in_archives *)

\* os.path.join(os.getcwd(), "temp_extracted_archives")
TempDir == <<"t">>

Digits == <<"1", "2", "3", "4", "5", "6", "7", "8", "9">>

\* os.path.join(temp_dir, f"archive_{n}")
ArchiveTempDir(n) == JoinPath(TempDir, <<"k", Digits[n]>>)

\* os.path.relpath(path, start) for a path below start.
RelPath(path, start) ==
    IF StartsWith(path, start \o <<Sep>>)
    THEN SubSeq(path, Len(start) + 2, Len(path))
    ELSE path

\* The directories that hold an archive: the i-th archive of the tree lies
\* in the i-th of them.
ArchiveDirs == <<<<>>, <<NameBC>>, ChainDir(1), <<NameH>>>>

ArchiveSlots == 1..MaxArchives

\* The tree search_in_archives is called on: the root and, below it, the
\* directories that hold an archive.
ArchiveTreeDirs == {ArchiveDirs[i] : i \in ArchiveSlots}

ArchiveSubDirs(d) == SubDirs(d) \cap ArchiveTreeDirs

\* The archives of directory d, as indices into aTree.
SlotsIn(d) == {i \in ArchiveSlots : ArchiveDirs[i] = d}

ArchivePath(i) == JoinPath(PathOf(ArchiveDirs[i]), aTree[i].name)

\* timeout_seconds * 5
GlobalTimeoutFactor == 5

\* A loop over files that never polls the global timeout.
GlobalTimeoutNotPolled(t) == FALSE

\* The test of lines 1215-1216 at time t.
GlobalTimeoutAt(t) ==
    cfg.timeout_seconds > 0
    /\ t - aStart > cfg.timeout_seconds * GlobalTimeoutFactor

GlobalTimeout == GlobalTimeoutAt(now)

NewArchiveStats ==
    [archives_searched |-> 0, files_in_archives_searched |-> 0,
     matches_found |-> 0, errors |-> 0, archives_skipped |-> 0]

\* All orders in which the members of a finite set can be listed.
RECURSIVE Orders(_)
Orders(S) ==
    IF S = {} THEN {<<>>}
    ELSE UNION {{<<x>> \o o : o \in Orders(S \ {x})} : x \in S}

\* search_in_directory on the directory an archive was extracted to, with
\* nothing failing: the extracted files that pass should_process_file are
\* searched.
ExtractedWalk(extract_dir, a, written) ==
    LET f == File(CHOOSE n \in written : TRUE, a.member.content,
                  Len(a.member.content))
        file_path == JoinPath(extract_dir, f.name)
        found == IF should_process_file(file_path, f)
                 THEN WithFile(file_path,
                               search_in_file(f.content, WalkPattern,
                                              WalkCase, FALSE, "searched"))
                 ELSE <<>>
    IN  [results |-> found,
         files_searched |-> IF should_process_file(file_path, f)
                            THEN a.entries ELSE 0,
         matches_found |-> Len(found),
         errors |-> 0]

\* for result in archive_results: result['file'] = archive_path::rel_path
RewritePaths(recs, archive_path, extract_dir) ==
    [k \in 1..Len(recs) |->
        [recs[k] EXCEPT !.file = archive_path \o <<":", ":">>
                                 \o RelPath(recs[k].file, extract_dir)]]

\* The call of search_in_archives up to the creation of the scratch root;
\* removing a stale scratch root or creating the new one may fail.
ArchStart ==
    /\ aPc = "idle"
    /\ aStart' = now
    /\ aProgress' = NewProgress
    /\ aSkip' = {}
    /\ aResults' = <<>>
    /\ \E fails \in BOOLEAN :
          /\ fails => CanFail
          /\ faults' = IF fails THEN faults + 1 ELSE faults
          /\ IF fails
             THEN /\ aStats' = [NewArchiveStats EXCEPT !.errors = 1]
                  /\ aPc' = "returned"
                  /\ UNCHANGED <<aScratch, aCreated, aTodo>>
             ELSE /\ aStats' = NewArchiveStats
                  /\ aScratch' = [root |-> "fresh", subs |-> <<>>]
                  /\ aCreated' = TRUE
                  /\ aTodo' = <<<<>>>>
                  /\ aPc' = "discover"
    /\ UNCHANGED <<aTree, aArchives, aLog, aRmFailed, aTimedOut, cfg, now>>
    /\ UNCHANGED nonArchVars

\* One round of the loop over os.walk(directory): the gate, then the files
\* of the directory, with the global timeout polled before each of them.
DiscoverDir ==
    /\ aPc = "discover" /\ aTodo # <<>>
    /\ LET d == Head(aTodo)
       IN  \E genv \in GateEnv, order \in Orders(ArchiveSubDirs(d)),
              files \in Orders(SlotsIn(d)) :
             LET gate == handle_directory_access(aSkip, PathOf(d), genv)
                 failed == gate.why \notin {"gate_skipset", "granted"}
                 after == IF gate.why = "gate_timeout"
                          THEN now + cfg.timeout_seconds + 1 ELSE now
                 expired == GlobalTimeoutAt(after)
                 found == SelectSeq(files, LAMBDA i :
                             /\ ~expired
                             /\ \E ext \in ArchiveExtensions :
                                   EndsWith(Lower(aTree[i].name), ext)
                             /\ should_process_file(
                                   ArchivePath(i),
                                   File(aTree[i].name, <<>>, aTree[i].size)))
             IN  /\ genv # "ok" => failed
                 /\ failed => CanFail
                 /\ gate.why = "gate_timeout" =>
                       (SlotsIn(d) # {} \/ ArchiveSubDirs(d) # {})
                 /\ now' = after
                 /\ faults' = IF failed THEN faults + 1 ELSE faults
                 /\ aSkip' = gate.skip
                 /\ aTodo' = order \o Tail(aTodo)
                 /\ aTimedOut' = (aTimedOut \/ (gate.granted /\ expired
                                                 /\ SlotsIn(d) # {}))
                 /\ IF gate.granted
                    THEN /\ aProgress' = update_current_directory(aProgress)
                         /\ aArchives' = aArchives \o found
                         /\ UNCHANGED aStats
                    ELSE /\ aStats' = [aStats EXCEPT !.archives_skipped = @ + 1]
                         /\ UNCHANGED <<aProgress, aArchives>>
    /\ UNCHANGED <<aPc, aTree, aScratch, aResults, aLog, aCreated, aRmFailed,
                   aStart, cfg>>
    /\ UNCHANGED nonArchVars

\* A discovery whose exception ends the call at once.
DiscoverRaisesAndReturns ==
    /\ aPc = "discover" /\ aTodo # <<>>
    /\ CanFail
    /\ faults' = faults + 1
    /\ aStats' = [aStats EXCEPT !.errors = @ + 1]
    /\ aTodo' = <<>>
    /\ aPc' = "returned"
    /\ UNCHANGED <<aTree, aScratch, aArchives, aResults, aLog, aCreated,
                   aRmFailed, aTimedOut, aSkip, aProgress, aStart, cfg, now>>
    /\ UNCHANGED nonArchVars

\* An exception ends the discovery; the archives found so far are kept.
DiscoverRaises ==
    /\ aPc = "discover" /\ aTodo # <<>>
    /\ CanFail
    /\ faults' = faults + 1
    /\ aStats' = [aStats EXCEPT !.errors = @ + 1]
    /\ aTodo' = <<>>
    /\ aPc' = "process"
    /\ UNCHANGED <<aTree, aScratch, aArchives, aResults, aLog, aCreated,
                   aRmFailed, aTimedOut, aSkip, aProgress, aStart, cfg, now>>
    /\ UNCHANGED nonArchVars

\* os.walk is exhausted.
DiscoverDone ==
    /\ aPc = "discover" /\ aTodo = <<>>
    /\ aPc' = "process"
    /\ UNCHANGED <<aTree, aScratch, aArchives, aStats, aResults, aTodo, aLog,
                   aCreated, aRmFailed, aTimedOut, aSkip, aProgress, aStart,
                   cfg, now, faults>>
    /\ UNCHANGED nonArchVars

\* One round of the loop over archives.
ProcessArchive ==
    /\ aPc = "process"
    /\ aStats.archives_searched < Len(aArchives)
    /\ \E env \in ArchiveEnv, rmtree_raises \in BOOLEAN :
          LET n == aStats.archives_searched + 1
              i == aArchives[n]
              archive_path == ArchivePath(i)
              archive_temp_dir == ArchiveTempDir(n)
              counted == [aStats EXCEPT !.archives_searched = n]
              ext == extract_archived_file(archive_path, aTree[i], env)
              walk == ExtractedWalk(archive_temp_dir, aTree[i], ext.written)
              failedStats == [counted EXCEPT !.errors = @ + 1,
                                             !.archives_skipped = @ + 1]
              left == IF rmtree_raises
                      THEN [aScratch EXCEPT !.subs = (n :> ext.written) @@ @]
                      ELSE aScratch
              entry(outcome, st, res, written, dir) ==
                  [archive |-> i, outcome |-> outcome, written |-> written,
                   errors |-> st.errors - aStats.errors,
                   skipped |-> st.archives_skipped - aStats.archives_skipped,
                   matches |-> Len(res), dirLeft |-> dir]
          IN  /\ env # "ok" => CanFail
              /\ env = "extract_raises" =>
                    extract_archived_file(archive_path, aTree[i], "ok").ok
              /\ env = "walk_raises" => ext.ok
              /\ rmtree_raises =>
                    /\ env \notin {"makedirs_raises", "walk_raises"}
                    /\ ext.written # {}
              /\ faults' = IF env # "ok" THEN faults + 1 ELSE faults
              /\ aProgress' = update_current_directory(aProgress)
              /\ IF env = "makedirs_raises"
                 THEN /\ aStats' = failedStats
                      /\ aLog' = Append(aLog, entry("raised", failedStats,
                                                    <<>>, {}, FALSE))
                      /\ UNCHANGED <<aScratch, aResults>>
                 ELSE IF ~ext.ok
                 THEN /\ aStats' = failedStats
                      /\ aScratch' = left
                      /\ aLog' = Append(aLog, entry("rejected", failedStats,
                                                    <<>>, ext.written,
                                                    rmtree_raises))
                      /\ UNCHANGED aResults
                 ELSE IF env = "walk_raises"
                 THEN /\ aStats' = failedStats
                      /\ aScratch' = [aScratch EXCEPT
                                        !.subs = (n :> ext.written) @@ @]
                      /\ aLog' = Append(aLog, entry("raised", failedStats,
                                                    <<>>, ext.written, TRUE))
                      /\ UNCHANGED aResults
                 ELSE LET done == [counted EXCEPT
                                     !.files_in_archives_searched =
                                         @ + walk.files_searched,
                                     !.matches_found = @ + walk.matches_found,
                                     !.errors = @ + walk.errors]
                          found == RewritePaths(walk.results, archive_path,
                                                archive_temp_dir)
                      IN  /\ aStats' = done
                          /\ aResults' = aResults \o found
                          /\ aScratch' = left
                          /\ aLog' = Append(aLog,
                                entry("searched", done, found, ext.written,
                                      rmtree_raises))
    /\ UNCHANGED <<aPc, aTree, aArchives, aTodo, aCreated, aRmFailed, aSkip,
                   aTimedOut, aStart, cfg, now>>
    /\ UNCHANGED nonArchVars

\* After the last archive: shutil.rmtree(temp_dir), which may raise when
\* extracted files are still there, and the return.
ArchFinish ==
    /\ aPc = "process"
    /\ aStats.archives_searched = Len(aArchives)
    /\ \E rmtree_raises \in BOOLEAN :
          /\ rmtree_raises => \E n \in DOMAIN aScratch.subs :
                                  aScratch.subs[n] # {}
          /\ aRmFailed' = rmtree_raises
          /\ aScratch' = IF rmtree_raises THEN aScratch
                         ELSE [root |-> "absent", subs |-> <<>>]
    /\ aPc' = "returned"
    /\ UNCHANGED <<aTree, aArchives, aStats, aResults, aTodo, aLog, aCreated,
                   aSkip, aProgress, aTimedOut, aStart, cfg, now, faults>>
    /\ UNCHANGED nonArchVars

\* Time passes during the discovery.
ArchTick ==
    /\ aPc = "discover"
    /\ cfg.timeout_seconds > 0
    /\ ~GlobalTimeout
    /\ now' = aStart + cfg.timeout_seconds * GlobalTimeoutFactor + 1
    /\ UNCHANGED <<aPc, aTree, aScratch, aArchives, aStats, aResults, aTodo,
                   aLog, aCreated, aRmFailed, aTimedOut, aSkip, aProgress,
                   aStart, cfg, faults>>
    /\ UNCHANGED nonArchVars

-----------------------------------------------------------------------------
(* json.dump and json.load on the document save_results writes *)

Quote == "\""
Backslash == "\\"

\* A code point U+DC80..U+DCFF, which os.fsdecode puts into a file name
\* for a byte that is not UTF-8; it cannot be encoded as UTF-8.
LoneSurrogate == "?"

\* The characters the strings of a results file are drawn from.
JsonAlphabet == {"a", "n", Quote, Backslash, NL}

DigitChars == <<"0", "1", "2", "3", "4", "5", "6", "7", "8", "9">>

\* A writer that escapes nothing.
EscapeCharRaw(c) == <<c>>

\* The JSON text of one character of a string (ensure_ascii=False).
EscapeChar(c) ==
    IF c = Quote THEN <<Backslash, Quote>>
    ELSE IF c = Backslash THEN <<Backslash, Backslash>>
    ELSE IF c = NL THEN <<Backslash, "n">>
    ELSE <<c>>

RECURSIVE Escape(_)
Escape(str) ==
    IF str = <<>> THEN <<>> ELSE EscapeChar(Head(str)) \o Escape(Tail(str))

EncodeString(str) == <<Quote>> \o Escape(str) \o <<Quote>>

\* The scan of the characters between the quotes of a JSON string.
RECURSIVE Unescape(_)
Unescape(t) ==
    IF t = <<>> THEN [ok |-> TRUE, value |-> <<>>]
    ELSE IF t[1] = Backslash
    THEN IF Len(t) < 2 \/ t[2] \notin {Quote, Backslash, "n"}
         THEN [ok |-> FALSE, value |-> <<>>]
         ELSE LET rest == Unescape(SubSeq(t, 3, Len(t)))
                  c == IF t[2] = "n" THEN NL ELSE t[2]
              IN  [ok |-> rest.ok, value |-> <<c>> \o rest.value]
    ELSE IF t[1] \in {Quote, NL}
    THEN [ok |-> FALSE, value |-> <<>>]
    ELSE LET rest == Unescape(Tail(t))
         IN  [ok |-> rest.ok, value |-> <<t[1]>> \o rest.value]

DecodeString(t) ==
    IF Len(t) < 2 \/ t[1] # Quote \/ t[Len(t)] # Quote
    THEN [ok |-> FALSE, value |-> <<>>]
    ELSE Unescape(SubSeq(t, 2, Len(t) - 1))

RECURSIVE Decimal(_)
Decimal(n) ==
    IF n < 10 THEN <<DigitChars[n + 1]>>
    ELSE Decimal(n \div 10) \o <<DigitChars[(n % 10) + 1]>>

EncodeInt(n) == IF n < 0 THEN <<"-">> \o Decimal(0 - n) ELSE Decimal(n)

DigitValue(c) == CHOOSE d \in 0..9 : DigitChars[d + 1] = c

RECURSIVE ParseDecimal(_)
ParseDecimal(t) ==
    IF Len(t) = 1 THEN DigitValue(t[1])
    ELSE ParseDecimal(SubSeq(t, 1, Len(t) - 1)) * 10 + DigitValue(t[Len(t)])

DecodeInt(t) ==
    IF t[1] = "-" THEN 0 - ParseDecimal(Tail(t)) ELSE ParseDecimal(t)

\* A float with one decimal place, held as a number of tenths: repr(float)
\* writes it as <integer part>.<digit> and float() reads that back.
EncodeFloat(tenths) ==
    Decimal(tenths \div 10) \o <<".">> \o <<DigitChars[(tenths % 10) + 1]>>

DecodeFloat(t) ==
    LET dot == CHOOSE i \in 1..Len(t) : t[i] = "."
    IN  ParseDecimal(SubSeq(t, 1, dot - 1)) * 10
        + ParseDecimal(SubSeq(t, dot + 1, Len(t)))

EncodeBool(b) == IF b THEN <<"t", "r", "u", "e">> ELSE <<"f", "a", "l", "s", "e">>

DecodeBool(t) == t = <<"t", "r", "u", "e">>

EncodeMatch(r) ==
    [file |-> EncodeString(r.file), line_number |-> EncodeInt(r.line_number),
     position |-> EncodeInt(r.position), context |-> EncodeString(r.context),
     is_binary |-> EncodeBool(r.is_binary)]

DecodeMatch(t) ==
    [file |-> DecodeString(t.file).value,
     line_number |-> DecodeInt(t.line_number),
     position |-> DecodeInt(t.position),
     context |-> DecodeString(t.context).value,
     is_binary |-> DecodeBool(t.is_binary)]

EncodeStats(st) ==
    [files_searched |-> EncodeInt(st.files_searched),
     matches_found |-> EncodeInt(st.matches_found),
     errors |-> EncodeInt(st.errors),
     duration_seconds |-> EncodeFloat(st.duration_seconds)]

DecodeStats(t) ==
    [files_searched |-> DecodeInt(t.files_searched),
     matches_found |-> DecodeInt(t.matches_found),
     errors |-> DecodeInt(t.errors),
     duration_seconds |-> DecodeFloat(t.duration_seconds)]

\* The strings of the arguments of save_results.
StringsOf(args) ==
    {args.search_pattern, args.directory}
    \cup {args.results[k].file : k \in 1..Len(args.results)}
    \cup {args.results[k].context : k \in 1..Len(args.results)}

\* Writing the text to a file opened with encoding='utf-8' raises
\* UnicodeEncodeError on a lone surrogate.
Encodable(args) ==
    \A str \in StringsOf(args) : \A i \in 1..Len(str) : str[i] # LoneSurrogate

\* json.dump of the dict save_results builds: the text of each value.
json_dump(args, timestamp) ==
    [search_pattern |-> EncodeString(args.search_pattern),
     directory |-> EncodeString(args.directory),
     timestamp |-> EncodeString(timestamp),
     stats |-> EncodeStats(args.stats),
     results |-> [k \in 1..Len(args.results) |-> EncodeMatch(args.results[k])]]

\* Whether json.load accepts the document.
WellFormed(doc) ==
    /\ DecodeString(doc.search_pattern).ok
    /\ DecodeString(doc.directory).ok
    /\ DecodeString(doc.timestamp).ok
    /\ \A k \in 1..Len(doc.results) :
          DecodeString(doc.results[k].file).ok
          /\ DecodeString(doc.results[k].context).ok

\* json.load of a well-formed document.
json_load(doc) ==
    [search_pattern |-> DecodeString(doc.search_pattern).value,
     directory |-> DecodeString(doc.directory).value,
     stats |-> DecodeStats(doc.stats),
     results |-> [k \in 1..Len(doc.results) |-> DecodeMatch(doc.results[k])]]

-----------------------------------------------------------------------------
(* Fileder.save_results and Fileder.load_results *)

\* if len(safe_pattern) > 20
SafePatternLen == 20

\* re.sub(r'[^\w]', '_', search_pattern), cut to 20 characters
SafePattern(search_pattern) ==
    LET safe == [i \in 1..Len(search_pattern) |->
                    IF search_pattern[i] \in {"a", "n", "A"}
                    THEN search_pattern[i] ELSE "_"]
    IN  IF Len(safe) > SafePatternLen THEN SubSeq(safe, 1, SafePatternLen)
        ELSE safe

\* datetime.now().strftime("%Y%m%d_%H%M%S") at the only moment of the model.
Timestamp == <<"2", "0", "2", "5", "0", "1", "0", "1", "_",
               "0", "0", "0", "0", "0", "0">>

\* os.path.join(results_dir, f"search_{safe_pattern}_{timestamp}.json")
ResultsFile(search_pattern) ==
    <<"s", "e", "a", "r", "c", "h", "_">> \o SafePattern(search_pattern)
    \o <<"_">> \o Timestamp \o <<".", "j", "s", "o", "n">>

None == <<>>

NoFile == [kind |-> "absent"]

\* What load_results returns when the file cannot be read or parsed.
LoadDefaults ==
    [results |-> <<>>, stats |-> [k \in {} |-> 0], search_pattern |-> <<>>,
     directory |-> <<>>]

\* The match records that are saved.
SavedMatch(file, context, binary) ==
    [file |-> file, line_number |-> IF binary THEN 0 - 1 ELSE 12,
     position |-> IF binary THEN 0 ELSE 10, context |-> context,
     is_binary |-> binary]

PlainFile == <<"r", "/", "a">>

SavedMatches ==
    {SavedMatch(file, context, binary) :
        file \in {PlainFile, <<"r", "/", LoneSurrogate>>},
        context \in SeqsUpTo(JsonAlphabet, MaxStrLen),
        binary \in BOOLEAN}

SavedResults ==
    {<<>>} \cup {<<r>> : r \in SavedMatches}
    \cup {<<SavedMatch(PlainFile, <<"a">>, FALSE), r>> : r \in SavedMatches}

SavedStats ==
    {[files_searched |-> 0, matches_found |-> 0, errors |-> 1,
      duration_seconds |-> 0],
     [files_searched |-> 12, matches_found |-> 2, errors |-> 0,
      duration_seconds |-> 105]}

SavedPatterns == {<<"a">>, <<Quote, Backslash>>, <<Backslash, "n">>}

SavedDirectories == {<<"r">>, <<"r", Backslash, "n">>}

\* What the environment does to one call of save_results.
SaveEnv == {"ok", "makedirs_raises", "open_raises"}

\* One call of save_results.
SaveResults ==
    /\ pPc = "idle"
    /\ \E env \in SaveEnv :
          IF ~pEnabled \/ env = "makedirs_raises" \/ env = "open_raises"
          THEN /\ pFile' = None
               /\ pDisk' = pDisk
          ELSE IF ~Encodable(pArgs)
          THEN /\ pFile' = None
               /\ pDisk' = [kind |-> "garbage"]
          ELSE /\ pFile' = ResultsFile(pArgs.search_pattern)
               /\ pDisk' = [kind |-> "json", doc |-> json_dump(pArgs, Timestamp)]
    /\ pPc' = "saved"
    /\ UNCHANGED <<pEnabled, pArgs, pLoaded, pUnreadable>>
    /\ UNCHANGED nonPersistVars

\* The results file is cut short or removed after it was written.
DamageFile ==
    /\ pPc = "saved"
    /\ pDisk.kind = "json"
    /\ pDisk' \in {[kind |-> "garbage"], NoFile,
                   [pDisk EXCEPT !.doc.directory = <<Quote>>]}
    /\ UNCHANGED <<pPc, pEnabled, pArgs, pFile, pLoaded, pUnreadable>>
    /\ UNCHANGED nonPersistVars

\* One call of load_results, on the path save_results returned or, when it
\* returned None, on the path it would have written.
LoadResults ==
    /\ pPc = "saved"
    /\ \E unreadable \in BOOLEAN :
          /\ pUnreadable' = unreadable
          /\ pLoaded' =
                IF unreadable \/ pDisk.kind # "json" THEN LoadDefaults
                ELSE IF ~WellFormed(pDisk.doc) THEN LoadDefaults
                ELSE json_load(pDisk.doc)
    /\ pPc' = "loaded"
    /\ UNCHANGED <<pEnabled, pArgs, pFile, pDisk>>
    /\ UNCHANGED nonPersistVars

-----------------------------------------------------------------------------
(* The specifications *)

WalkIdle ==
    /\ wPc = "idle"
    /\ stack = <<>>
    /\ results = <<>>
    /\ errors = 0
    /\ progress = NewProgress
    /\ skip_directories = {}
    /\ wStart = 0
    /\ wOutcome = [d \in Dirs |-> "unreached"]
    /\ wDispatched = {}
    /\ wUnexpected = 0
    /\ wLate = FALSE
    /\ wWorkers = NoWorkers
    /\ wStats = NoStats
    /\ wRun = 1
    /\ wFirst = NoFirst

SearchIdle ==
    /\ sPc = "call"
    /\ sContent = <<>>
    /\ sPattern = WalkPattern
    /\ sCase = FALSE
    /\ sBinary = FALSE
    /\ sPath = "none"
    /\ sResults = <<>>
    /\ sContextChars = 0
    /\ sName = TxtA
    /\ sReadable = TRUE

ArchIdle ==
    /\ aPc = "idle"
    /\ aTree = <<>>
    /\ aScratch = [root |-> "absent", subs |-> <<>>]
    /\ aArchives = <<>>
    /\ aStats = NewArchiveStats
    /\ aResults = <<>>
    /\ aTodo = <<>>
    /\ aLog = <<>>
    /\ aCreated = FALSE
    /\ aRmFailed = FALSE
    /\ aTimedOut = FALSE
    /\ aSkip = {}
    /\ aProgress = NewProgress
    /\ aStart = 0

PersistIdle ==
    /\ pPc = "idle"
    /\ pEnabled = TRUE
    /\ pArgs = LoadDefaults
    /\ pFile = None
    /\ pDisk = NoFile
    /\ pLoaded = LoadDefaults
    /\ pUnreadable = FALSE

GateIdle ==
    /\ gRoot = RootArg
    /\ gSkip = {}
    /\ gCalled = {}
    /\ gRefused = {}
    /\ gLast = NoCall

ClockIdle == now = 0 /\ faults = 0

WalkInit ==
    /\ cfg \in Configs
    /\ WalkIdle
    /\ SearchIdle
    /\ ArchIdle
    /\ PersistIdle
    /\ GateIdle
    /\ ClockIdle

WalkNext ==
    \/ WalkStart
    \/ EnterDir
    \/ WorkerRun
    \/ Collect
    \/ PoolDone
    \/ NextSubdir
    \/ LeaveDir
    \/ WalkFinish

TimedWalkNext ==
    \/ WalkNext
    \/ Tick

\* The walk; the clock moves only by the time a probe of the gate takes.
SpecWalk == WalkInit /\ [][WalkNext]_vars

\* The walk with time passing between any two of its steps.
SpecWalkTimed == WalkInit /\ [][TimedWalkNext]_vars

\* Two calls in a row, with unlimited depth and hidden files left out.
WalkTwiceInit ==
    /\ WalkInit
    /\ cfg.max_depth = 0
    /\ ~cfg.search_hidden_files

WalkTwiceNext ==
    \/ WalkNext
    \/ WalkAgain

SpecWalkTwice == WalkTwiceInit /\ [][WalkTwiceNext]_vars

\* Calls of search_in_directory(directory, pattern, case_sensitive, False)
\* on a root that is a directory.
FlatConfigs ==
    {[c EXCEPT !.recursive = FALSE] :
        c \in {k \in Configs : k.root_is_dir /\ ~k.search_hidden_files}}

WalkFlatInit ==
    /\ cfg \in FlatConfigs
    /\ WalkIdle
    /\ SearchIdle
    /\ ArchIdle
    /\ PersistIdle
    /\ GateIdle
    /\ ClockIdle

SpecWalkFlat == WalkFlatInit /\ [][WalkNext]_vars

SearchInit ==
    /\ sPc = "call"
    /\ sContent \in SeqsUpTo(Alphabet, MaxContentLen)
    /\ sPattern \in SeqsUpTo(Alphabet, MaxPatternLen) \ {<<>>}
    /\ sCase \in BOOLEAN
    /\ sBinary \in BOOLEAN
    /\ sPath = "none"
    /\ sResults = <<>>
    /\ sContextChars = 0
    /\ sName = TxtA
    /\ sReadable = TRUE
    /\ cfg = CHOOSE c \in Configs : TRUE
    /\ WalkIdle
    /\ ArchIdle
    /\ PersistIdle
    /\ GateIdle
    /\ ClockIdle

\* One call of search_in_file; the environment decides the path it takes.
SearchInFile ==
    /\ sPc = "call"
    /\ \E path \in SearchPaths :
          /\ (path = "fallback") => ~sBinary
          /\ sPath' = path
          /\ sResults' = WithContext(
                search_in_file(sContent, sPattern, sCase, sBinary, path),
                sContent, sPattern, sCase, sContextChars)
    /\ sPc' = "ret"
    /\ UNCHANGED <<sContent, sPattern, sCase, sBinary, sContextChars, sName,
                   sReadable>>
    /\ UNCHANGED nonSearchVars

SearchNext == SearchInFile

\* The names of the files that are classified: known text extensions in
\* both cases, extensions with a MIME type of text, of XML and of neither,
\* no extension, and a name that is nothing but a dot and letters.
BinaryNames ==
    {<<"a", ".", "t", "x", "t">>, <<"A", ".", "T", "X", "T">>,
     <<"a", ".", "m", "d">>, <<"a", ".", "t", "e", "x">>,
     <<"a", ".", "x", "p", "d", "l">>, <<"a", ".", "b", "i", "n">>,
     <<"a">>, <<".", "t", "x", "t">>}

\* Before a call of is_binary_file.
BinaryInit ==
    /\ sPc = "classify"
    /\ sName \in BinaryNames
    /\ sContent \in SeqsUpTo(ByteAlphabet, MaxContentLen)
    /\ sReadable \in BOOLEAN
    /\ sPattern = WalkPattern
    /\ sCase = FALSE
    /\ sBinary = FALSE
    /\ sPath = "none"
    /\ sResults = <<>>
    /\ sContextChars = 0
    /\ cfg = CHOOSE c \in Configs : TRUE
    /\ WalkIdle
    /\ ArchIdle
    /\ PersistIdle
    /\ GateIdle
    /\ ClockIdle

\* One call of is_binary_file.
IsBinaryFile ==
    /\ sPc = "classify"
    /\ sBinary' = is_binary_file(sName, sContent, sReadable)
    /\ sPc' = "classified"
    /\ UNCHANGED <<sContent, sPattern, sCase, sPath, sResults, sContextChars,
                   sName, sReadable>>
    /\ UNCHANGED nonSearchVars

BinaryNext == IsBinaryFile

SpecBinary == BinaryInit /\ [][BinaryNext]_vars

SpecSearch == SearchInit /\ [][SearchNext]_vars

\* The characters of the files whose contexts are looked at.
ContextAlphabet == {"a", "A", " ", NL}

\* A file holding "hello world", one holding "world", and the pattern
\* "hello", searched with context_chars = 5.
HelloWorld == <<"h", "e", "l", "l", "o", " ", "w", "o", "r", "l", "d">>
World == <<"w", "o", "r", "l", "d">>
Hello == <<"h", "e", "l", "l", "o">>

\* Calls of search_in_file on text files: contents with blanks and line
\* ends, and the two files of the scenario.
ContextInit ==
    /\ sPc = "call"
    /\ \/ /\ sContent \in SeqsUpTo(ContextAlphabet, MaxContentLen)
          /\ sPattern \in {[i \in 1..k |-> "a"] : k \in 1..MaxPatternLen}
          /\ sCase \in BOOLEAN
          /\ sContextChars \in 0..MaxContextChars
       \/ /\ sContent \in {HelloWorld, World}
          /\ sPattern = Hello
          /\ sCase = FALSE
          /\ sContextChars = 5
    /\ sBinary = FALSE
    /\ sPath = "none"
    /\ sResults = <<>>
    /\ sName = TxtA
    /\ sReadable = TRUE
    /\ cfg = CHOOSE c \in Configs : TRUE
    /\ WalkIdle
    /\ ArchIdle
    /\ PersistIdle
    /\ GateIdle
    /\ ClockIdle

SpecContext == ContextInit /\ [][SearchNext]_vars

\* The settings search_in_archives is tried with: no extension is excluded,
\* or .zip is.
ArchConfigs ==
    {c \in Configs : /\ c.root_is_dir
                     /\ c.max_depth = 0
                     /\ ~c.search_hidden_files
                     /\ c.included_extensions = {}}

ArchInit ==
    /\ cfg \in ArchConfigs
    /\ aPc = "idle"
    /\ aTree \in [ArchiveSlots -> ArchiveKinds]
    /\ \A i \in ArchiveSlots \ {1} : aTree[i] \in SoundKinds
    /\ aScratch \in {[root |-> "absent", subs |-> <<>>],
                     [root |-> "stale", subs |-> (1 :> {InnerTxt})]}
    /\ aArchives = <<>>
    /\ aStats = NewArchiveStats
    /\ aResults = <<>>
    /\ aTodo = <<>>
    /\ aLog = <<>>
    /\ aCreated = FALSE
    /\ aRmFailed = FALSE
    /\ aTimedOut = FALSE
    /\ aSkip = {}
    /\ aProgress = NewProgress
    /\ aStart = 0
    /\ WalkIdle
    /\ SearchIdle
    /\ PersistIdle
    /\ GateIdle
    /\ ClockIdle

ArchNext ==
    \/ ArchStart
    \/ DiscoverDir
    \/ DiscoverRaises
    \/ DiscoverDone
    \/ ProcessArchive
    \/ ArchFinish
    \/ ArchTick

SpecArch == ArchInit /\ [][ArchNext]_vars

PersistInit ==
    /\ pPc = "idle"
    /\ pEnabled \in BOOLEAN
    /\ pArgs \in [results : SavedResults, stats : SavedStats,
                  search_pattern : SavedPatterns, directory : SavedDirectories]
    /\ pFile = None
    /\ pDisk = NoFile
    /\ pLoaded = LoadDefaults
    /\ pUnreadable = FALSE
    /\ cfg = CHOOSE c \in Configs : TRUE
    /\ WalkIdle
    /\ SearchIdle
    /\ ArchIdle
    /\ GateIdle
    /\ ClockIdle

PersistNext ==
    \/ SaveResults
    \/ DamageFile
    \/ LoadResults

SpecPersist == PersistInit /\ [][PersistNext]_vars

\* One RetryHandler and the calls a walker makes of it.
GateInit ==
    /\ gRoot \in GateRoots
    /\ gSkip = {}
    /\ gCalled = {}
    /\ gRefused = {}
    /\ gLast = NoCall
    /\ cfg \in {c \in Configs : /\ c.root_is_dir
                                /\ c.max_depth = 0
                                /\ ~c.search_hidden_files
                                /\ c.excluded_extensions = {}
                                /\ c.included_extensions = {}}
    /\ WalkIdle
    /\ SearchIdle
    /\ ArchIdle
    /\ PersistIdle
    /\ ClockIdle

GateNext == HandleDirectoryAccess

ProbeNext == ProbeDirectory

SpecProbe == GateInit /\ [][ProbeNext]_vars

SpecGate == GateInit /\ [][GateNext]_vars

-----------------------------------------------------------------------------
(* Claims about search_in_file *)

\* The start offsets of pattern in text, by a reference substring scan.
RefOffsets(pattern, text) ==
    {i \in 0..Len(text) : OccursAt(pattern, text, i)}

Fold(s) == IF sCase THEN s ELSE Lower(s)

\* The (line number, offset) pairs a reference scan finds in the file.
RefHits ==
    IF sBinary \/ sPath = "fallback"
    THEN {<<-1, i>> : i \in RefOffsets(Fold(sPattern), Fold(sContent))}
    ELSE LET lines == SplitLines(sContent)
         IN  UNION {{<<n, i>> : i \in RefOffsets(Fold(sPattern), Fold(lines[n]))}
                    : n \in 1..Len(lines)}

Hits == {<<sResults[k].line_number, sResults[k].position>> :
            k \in 1..Len(sResults)}

\* C1: the positions search_in_file returns are exactly the offsets at which
\* the (case-folded) pattern occurs in the (case-folded) line or content,
\* overlapping occurrences included: no false positive and no false
\* negative against a reference substring scan.
C1_MatchesAreAllOccurrences ==
    (sPc = "ret" /\ sPath \in {"searched", "fallback"}) => Hits = RefHits

\* s without its leading and trailing whitespace: what lies between the
\* first and the last character that is not whitespace.
Trimmed(s) ==
    LET keep == {i \in 1..Len(s) : s[i] \notin {" ", NL}}
    IN  IF keep = {} THEN <<>>
        ELSE SubSeq(s, CHOOSE i \in keep : \A j \in keep : i <= j,
                       CHOOSE i \in keep : \A j \in keep : i >= j)

\* line[lo:hi] with lo and hi as the claim gives them.
ClaimedContext(line, pos, c) ==
    LET lo == IF pos - c > 0 THEN pos - c ELSE 0
        hi == IF pos + Len(sPattern) + c < Len(line)
              THEN pos + Len(sPattern) + c ELSE Len(line)
    IN  Trimmed([i \in 1..(hi - lo) |-> line[lo + i]])

\* C21: every record of the text path carries the 1-based number of the
\* line it was found in, the offset of the match in that line, and as its
\* context the slice line[max(0, pos-c) : min(len(line), pos+len(pattern)+c)]
\* without leading and trailing whitespace; "hello world" searched for
\* "hello" with c = 5 gives one record (1, 0, "hello worl"), and "world"
\* gives none.
C21_TextRecordContext ==
    (sPc = "ret" /\ sPath = "searched" /\ ~sBinary) =>
        LET lines == SplitLines(sContent)
        IN  /\ \A k \in 1..Len(sResults) :
                  LET r == sResults[k]
                  IN  /\ ~r.is_binary
                      /\ r.line_number \in 1..Len(lines)
                      /\ OccursAt(Fold(sPattern), Fold(lines[r.line_number]),
                                  r.position)
                      /\ r.context = ClaimedContext(lines[r.line_number],
                                                    r.position, sContextChars)
            /\ (sContent = HelloWorld /\ sPattern = Hello) =>
                  sResults = <<[line_number |-> 1, position |-> 0,
                                is_binary |-> FALSE,
                                context |-> <<"h", "e", "l", "l", "o", " ",
                                              "w", "o", "r", "l">>]>>
            /\ (sContent = World /\ sPattern = Hello) => sResults = <<>>

\* C21 witness: a match in the second line of a file whose context lost a
\* blank to the trimming and is clipped by the end of the line.
C21_Witness ==
    /\ sPc = "ret" /\ sPath = "searched" /\ ~sBinary
    /\ sContextChars = 1
    /\ \E k \in 1..Len(sResults) :
          /\ sResults[k].line_number = 2
          /\ sResults[k].position = 1
          /\ sResults[k].context = <<"a">>
          /\ SplitLines(sContent)[2][1] = " "

\* The first 1024 bytes of the file that is classified.
FirstBytes == [i \in 1..(IF Len(sContent) < 1024 THEN Len(sContent) ELSE 1024)
                 |-> sContent[i]]

KnownTextExtension == Lower(SplitExt(sName)) \in TEXT_EXTENSIONS

TextMime ==
    \E p \in TextMimePrefixes : StartsWith(GuessType(sName), p)

\* C27: the verdict of is_binary_file is that of the first decisive rule:
\* a known text extension gives text, then a text MIME type gives text,
\* then an I/O error gives binary, a NUL byte in the first 1024 bytes gives
\* binary, and otherwise the file is text exactly if these bytes decode as
\* UTF-8; a known text extension wins over NUL bytes and unreadability.
C27_FirstDecisiveRuleWins ==
    sPc = "classified" =>
        /\ KnownTextExtension => ~sBinary
        /\ (~KnownTextExtension /\ TextMime) => ~sBinary
        /\ (~KnownTextExtension /\ ~TextMime /\ ~sReadable) => sBinary
        /\ (~KnownTextExtension /\ ~TextMime /\ sReadable) =>
              /\ (\E i \in DOMAIN FirstBytes : FirstBytes[i] = Nul) => sBinary
              /\ (\A i \in DOMAIN FirstBytes : FirstBytes[i] # Nul) =>
                    (sBinary <=> ~Utf8Decodes(FirstBytes))

\* C27 witness: a file with a known text extension that holds a NUL byte
\* and cannot be read was classified as text.
C27_Witness ==
    /\ sPc = "classified"
    /\ sName = <<"A", ".", "T", "X", "T">>
    /\ \E i \in 1..Len(sContent) : sContent[i] = Nul
    /\ ~sReadable
    /\ ~sBinary

-----------------------------------------------------------------------------
(* Claims about search_in_directory *)

Listed(d) == wOutcome[d] = "listed"

\* traverse_dir was called on d and has decided what to do with it.
Reached(d) == wOutcome[d] # "unreached"

WithinDepth(d) == cfg.max_depth = 0 \/ Len(d) <= cfg.max_depth

\* The outcomes in which the gate refused d or its listing or processing
\* failed.
DeniedOutcomes ==
    {"gate_skipset", "gate_noaccess", "gate_timeout", "gate_error",
     "list_perm", "list_err", "proc_err"}

\* The outcomes in which the environment made an operation on d itself fail.
FailedOutcomes == DeniedOutcomes \ {"gate_skipset"}

ParentOf(d) == SubSeq(d, 1, Len(d) - 1)

\* The walker recurses into d when it processes d's parent.
Visible(d) == ~HiddenName(d[Len(d)]) \/ cfg.search_hidden_files

\* The directory a file path lies in, and the file's name.
DirsHolding(file_path) ==
    {d \in Dirs : \E f \in FilesOf(d) : JoinPath(PathOf(d), f.name) = file_path}

RECURSIVE BaseName(_)
BaseName(file_path) ==
    IF file_path = <<>> \/ file_path[Len(file_path)] = Sep THEN <<>>
    ELSE BaseName(SubSeq(file_path, 1, Len(file_path) - 1))
         \o <<file_path[Len(file_path)]>>

ResultFiles == {results[k].file : k \in 1..Len(results)}

DeepFile == JoinPath(PathOf(ChainDir(TreeDepth)), TxtA)

\* C2: with the root at depth 0, a directory the walker comes to is rejected
\* by the depth check exactly when max_depth > 0 and its depth exceeds
\* max_depth; one that the gate admits and whose listing succeeds is listed
\* and its files submitted if and only if max_depth = 0 or its depth is at
\* most max_depth. No file of a directory beyond the limit is submitted,
\* every skipped directory adds one to dirs_skipped, and with max_depth = 0
\* and nothing failing the file in the deepest directory is found.
C2_DepthBoundary ==
    /\ \A d \in Dirs :
          /\ Reached(d) => (wOutcome[d] = "too_deep" <=> ~WithinDepth(d))
          /\ (Reached(d) /\ wOutcome[d] \notin DeniedOutcomes)
                => (Listed(d) <=> WithinDepth(d))
          /\ Listed(d) =>
                \A f \in Submitted(d) :
                    JoinPath(PathOf(d), f.name) \in wDispatched
          /\ (d # <<>> /\ wPc = "returned" /\ Listed(ParentOf(d)) /\ Visible(d))
                => Reached(d)
    /\ \A p \in wDispatched \cup ResultFiles :
          \A d \in DirsHolding(p) : Listed(d) /\ WithinDepth(d)
    /\ progress.dirs_skipped =
          Cardinality({d \in Dirs : wOutcome[d] \in SkippedOutcomes})
          + (IF wPc = "returned" /\ ~cfg.root_is_dir THEN 1 ELSE 0)
    /\ (wPc = "returned" /\ cfg.root_is_dir /\ cfg.max_depth = 0 /\ faults = 0)
          => DeepFile \in ResultFiles

\* C2 witness: with max_depth = 2 the walk has come to the directory at
\* depth 3, skipped it and returned.
C2_Witness ==
    /\ wPc = "returned"
    /\ cfg.max_depth = 2
    /\ wOutcome[ChainDir(3)] = "too_deep"
    /\ Listed(ChainDir(2))
    /\ wStats.dirs_skipped = 1

\* C3: with timeout_seconds > 0, once the time since the walk began exceeds
\* timeout_seconds no further directory is entered and no further file
\* search is dispatched.
C3_NoWorkAfterTimeout == ~wLate

\* C4: when the walk returns, every directory that sits in a listed
\* directory, is within the depth limit, is not hidden and did not itself
\* fail has been listed, whatever failed elsewhere.
C4_FailureSparesSiblings ==
    (wPc = "returned" /\ cfg.root_is_dir) =>
        \A d \in Dirs \ {<<>>} :
            (/\ Listed(ParentOf(d))
             /\ Visible(d)
             /\ WithinDepth(d)
             /\ wOutcome[d] \notin FailedOutcomes) => Listed(d)

\* C5: every unexpected exception raised during a file search, a listing
\* or the processing of a directory adds exactly one to stats.errors.
C5_ExceptionsAreCounted ==
    (wPc = "returned" /\ cfg.root_is_dir) => wStats.errors = wUnexpected

\* C6: when the root is not an existing directory the call returns an empty
\* list and stats with errors = 1, no directory is listed, no file is
\* searched and the SkipSet is left empty.
C6_RootNotADirectory ==
    (wPc = "returned" /\ ~cfg.root_is_dir) =>
        /\ results = <<>>
        /\ wStats.errors = 1
        /\ wStats.files_searched = 0
        /\ wStats.dirs_searched = 0
        /\ \A d \in Dirs : ~Reached(d)
        /\ wDispatched = {}
        /\ skip_directories = {}
        /\ stack = <<>>

C6_Witness == wPc = "returned" /\ ~cfg.root_is_dir /\ wStats.errors = 1

\* The files that are or were in the hands of a worker, by path.
InPools ==
    UNION {{JoinPath(PathOf(stack[i].dir), n) : n \in DOMAIN stack[i].futs}
           : i \in 1..Len(stack)}

PendingResultFiles ==
    UNION {{stack[i].file_results[k].file : k \in 1..Len(stack[i].file_results)}
           : i \in 1..Len(stack)}

NameHasExtension(file_path, exts) ==
    \E ext \in exts : EndsWith(Lower(BaseName(file_path)), ext)

PermissionOutcomes == {"list_perm", "gate_error"}

\* The step in which a directory meets a permission error: one more
\* skipped directory, no match, and traverse_dir returns to its caller.
PermissionErrorStep ==
    \A d \in Dirs :
        (wOutcome[d] = "unreached" /\ wOutcome'[d] \in PermissionOutcomes) =>
            /\ progress'.dirs_skipped = progress.dirs_skipped + 1
            /\ results' = results
            /\ wDispatched' = wDispatched
            /\ stack' = Pop
            /\ wPc' = "walking"

\* What has become of such a directory and of the others.
PermissionErrorPassedOver ==
    \A d \in Dirs :
        wOutcome[d] \in PermissionOutcomes =>
            /\ \A p \in wDispatched \cup ResultFiles : d \notin DirsHolding(p)
            /\ wOutcome[d] = "list_perm" => PathOf(d) \notin skip_directories
            /\ wPc = "returned" =>
                  /\ stack = <<>>
                  /\ wStats.dirs_skipped >= 1
                  /\ \A e \in Dirs \ {<<>>} :
                        (Listed(ParentOf(e)) /\ Visible(e)) => Reached(e)
                  /\ skip_directories = {} =>
                        \A e \in Dirs \ {<<>>} :
                            (/\ Listed(ParentOf(e)) /\ Visible(e)
                             /\ WithinDepth(e)
                             /\ wOutcome[e] \notin FailedOutcomes) => Listed(e)

\* C14: a directory whose listing raises a permission error adds exactly
\* one to dirs_skipped and contributes no match; the walk returns to the
\* directory above it, comes to every remaining directory and returns.
C14_PermissionErrorSkipsOneDirectory ==
    [][PermissionErrorStep]_vars /\ []PermissionErrorPassedOver

\* C14 witness: the listing of a subdirectory raised PermissionError, the
\* other directories were listed and the walk returned matches.
C14_Witness ==
    /\ wPc = "returned"
    /\ wOutcome[<<NameBC>>] = "list_perm"
    /\ \A d \in Dirs \ {<<NameBC>>, <<NameH>>} : Listed(d)
    /\ wStats.dirs_skipped = 1
    /\ Len(results) > 0

\* The futures of the walk whose worker has not finished.
RunningWorkers ==
    {<<i, n>> \in UNION {{<<j, m>> : m \in DOMAIN stack[j].futs}
                         : j \in 1..Len(stack)} :
        stack[i].futs[n].st = "pending"}

\* A step in which traverse_dir is entered for a directory (the gate is
\* called in it unless the directory is too deep) or the SkipSet changes.
GateCallStep ==
    \/ \E d \in Dirs : wOutcome[d] = "unreached" /\ wOutcome'[d] # "unreached"
    \/ skip_directories' # skip_directories

\* A step in which a worker finishes its search_in_file.
WorkerStep ==
    /\ Len(stack') = Len(stack)
    /\ \E w \in RunningWorkers :
          stack'[w[1]].futs[w[2]].st \in {"done", "raised"}

\* C17: a worker's step neither calls the gate nor touches the SkipSet,
\* and the gate is called and the SkipSet written only while no worker of
\* the walk is running.
C17_SkipSetIsSingleThreaded ==
    /\ [][WorkerStep => (~GateCallStep /\ wOutcome' = wOutcome)]_vars
    /\ [][GateCallStep => (RunningWorkers = {} /\ ~WorkerStep)]_vars
    /\ [](RunningWorkers # {} =>
            (Top.phase = "pool" /\ \A w \in RunningWorkers : w[1] = Len(stack)))

\* C17 witness: the files of the root went through the pool and then the
\* gate refused a subdirectory and put it into the SkipSet.
C17_Witness ==
    /\ Listed(<<>>)
    /\ JoinPath(PathOf(<<>>), TxtA) \in wDispatched
    /\ \E d \in SubDirs(<<>>) :
          wOutcome[d] = "gate_noaccess" /\ PathOf(d) \in skip_directories
    /\ RunningWorkers = {}

\* C18: when search_in_directory has returned, files_searched is the number
\* of workers that returned a result, files_skipped the number of files the
\* pre-filter rejected plus the number of workers that raised, and
\* matches_found the number of match records in the returned list,
\* whatever the order in which the workers finished and were collected.
C18_NoIncrementLost ==
    wPc = "returned" =>
        /\ wStats.files_searched = wWorkers.returned
        /\ wStats.files_skipped = wWorkers.rejected + wWorkers.raised
        /\ wStats.matches_found = Len(results)

\* C18 witness: a call has returned in which two workers of one pool
\* returned a result, and a file was rejected by the pre-filter.
C18_Witness ==
    /\ wPc = "returned"
    /\ {JoinPath(PathOf(<<>>), TxtA), JoinPath(PathOf(<<>>), ZipN)}
          \subseteq wDispatched
    /\ wWorkers.returned >= 2
    /\ wWorkers.rejected >= 1
    /\ Len(results) >= 1

\* The calls of traverse_dir whose pool has been opened and has not yet
\* shut down.
OpenPools ==
    {i \in 1..Len(stack) :
        \/ stack[i].phase = "pool"
        \/ \E n \in DOMAIN stack[i].futs : stack[i].futs[n].st # "collected"}

\* C19: while a subdirectory is being traversed the pool of its parent has
\* shut down with every submitted search collected; the calls in progress
\* form one chain from the root, so that siblings are traversed one after
\* another; and at most one pool is open at any moment.
C19_OnePoolAtATime ==
    /\ \A i \in 1..(Len(stack) - 1) :
          /\ stack[i].phase = "subdirs"
          /\ \A n \in DOMAIN stack[i].futs : stack[i].futs[n].st = "collected"
          /\ stack[i + 1].dir \in SubDirs(stack[i].dir)
          /\ stack[i + 1].dir \notin stack[i].dirsLeft
    /\ Cardinality(OpenPools) <= 1
    /\ OpenPools \subseteq {Len(stack)}

\* C19 witness: the pool of a subdirectory has a running worker after the
\* pool of the root searched two files, and a sibling is still waiting for
\* its turn.
C19_Witness ==
    /\ Len(stack) = 2
    /\ stack[1].dir = <<>>
    /\ \A n \in DOMAIN stack[1].futs : stack[1].futs[n].st = "collected"
    /\ Cardinality(DOMAIN stack[1].futs) = 2
    /\ stack[1].dirsLeft # {}
    /\ \E n \in DOMAIN stack[2].futs : stack[2].futs[n].st = "pending"

\* C22: a call with recursive = False searches only the files directly in
\* the root and calls traverse_dir on no subdirectory.
C22_NonRecursiveStaysInRoot ==
    (wPc = "returned" /\ ~cfg.recursive) =>
        /\ \A d \in Dirs \ {<<>>} : ~Reached(d)
        /\ wDispatched \subseteq
              {JoinPath(PathOf(<<>>), f.name) : f \in FilesOf(<<>>)}

\* The number of regular files in the directories of D.
RECURSIVE FileCount(_)
FileCount(D) ==
    IF D = {} THEN 0
    ELSE LET d == CHOOSE e \in D : TRUE
         IN  Cardinality(FilesOf(d)) + FileCount(D \ {d})

\* The directories whose os.scandir succeeded.
Scanned == {d \in Dirs : wOutcome[d] \in {"listed", "proc_err"}}

C24_DirectoryCountedOnce ==
    (wPc = "returned" /\ RootIsDirectory) =>
        /\ wStats.dirs_searched + wStats.dirs_skipped
              = Cardinality({d \in Dirs : Reached(d)})
        /\ wStats.dirs_searched = Cardinality({d \in Dirs : Listed(d)})

\* The directory that holds the file of this path.
DirOfFile(file_path) ==
    CHOOSE d \in Dirs :
        \E f \in FilesOf(d) : JoinPath(PathOf(d), f.name) = file_path

\* Directory e lies strictly below directory d.
StrictlyBelow(e, d) == Len(d) < Len(e) /\ SubSeq(e, 1, Len(d)) = d

\* C28: in the list of the walk the matches of one file are contiguous and
\* ascend by (line number, position), and no match of a file below a
\* directory comes before a match of a file directly in that directory.
C28_ResultOrder ==
    \A i \in 1..Len(results) : \A j \in (i + 1)..Len(results) :
        /\ results[i].file = results[j].file =>
              /\ \A k \in i..j : results[k].file = results[i].file
              /\ \/ results[i].line_number < results[j].line_number
                 \/ /\ results[i].line_number = results[j].line_number
                    /\ results[i].position < results[j].position
        /\ ~StrictlyBelow(DirOfFile(results[i].file),
                          DirOfFile(results[j].file))

\* C28 witness: the walk returned the match of r/n.zip before the two of
\* r/a.txt, whose worker finished later, and a match from a subdirectory
\* after them.
C28_Witness ==
    /\ wPc = "returned"
    /\ Len(results) >= 4
    /\ results[1].file = JoinPath(PathOf(<<>>), ZipN)
    /\ results[2].file = JoinPath(PathOf(<<>>), TxtA)
    /\ results[3].file = JoinPath(PathOf(<<>>), TxtA)
    /\ results[2].position < results[3].position
    /\ DirOfFile(results[4].file) # <<>>

\* C13: a second call of search_in_directory on the same Fileder starts
\* with an empty SkipSet, a fresh tracker and no results; when nothing
\* fails in either call the second returns the same matches, each as
\* often, and the same counters as the first, whatever the order in which
\* the workers finish; and when nothing fails in the second call no
\* directory is refused in it, whatever the first call skipped.
C13_SecondRunIsFresh ==
    /\ (wRun = 2 /\ wPc = "walking" /\ \A d \in Dirs : ~Reached(d)) =>
          /\ skip_directories = {}
          /\ progress = NewProgress
          /\ results = <<>>
          /\ errors = 0
    /\ (wRun = 2 /\ wPc = "returned" /\ faults = 0) =>
          /\ BagOf(results) = wFirst.results
          /\ wStats = wFirst.stats
    /\ (wRun = 2 /\ wPc = "returned" /\ faults = wFirst.faults) =>
          /\ skip_directories = {}
          /\ \A d \in Dirs : wOutcome[d] \notin DeniedOutcomes
    /\ (wRun = 2 /\ faults = wFirst.faults) => skip_directories = {}

\* C13 witness: the first call put a directory into its SkipSet and the
\* second, in which nothing failed, listed that directory and found
\* matches.
C13_Witness ==
    /\ wRun = 2 /\ wPc = "returned"
    /\ wFirst.skip # {}
    /\ faults = wFirst.faults
    /\ \A d \in Dirs : d # <<>> /\ PathOf(d) \in wFirst.skip => Listed(d)
    /\ Len(results) > 0

-----------------------------------------------------------------------------
(* Claims about RetryHandler *)

\* e is d or lies below d.
AtOrBelow(e, d) == Len(d) <= Len(e) /\ SubSeq(e, 1, Len(d)) = d

\* C15: once handle_directory_access has returned False for a directory,
\* should_skip_directory holds for it and for every directory below it,
\* and a later call for any of them returns False without an access check
\* or a probe.
C15_RefusedStaysRefused ==
    /\ \A d \in gRefused : \A e \in GateDirs :
          AtOrBelow(e, d) => should_skip_directory(gSkip, GatePath(gRoot, e))
    /\ \A d \in GateDirs :
          (/\ AtOrBelow(gLast.dir, d)
           /\ should_skip_directory(gLast.before, GatePath(gRoot, d)))
              => gLast.why = "gate_skipset"

\* Directory d is an entry of the SkipSet skip or lies beneath one in the
\* directory tree.
CoveredInTree(skip, d) ==
    \E e \in GateDirs :
        NormPath(GatePath(gRoot, e)) \in skip /\ AtOrBelow(d, e)

\* C25: should_skip_directory holds for a directory exactly when it is an
\* entry of the SkipSet or lies beneath one, and the gate refuses no
\* directory on account of the SkipSet that is neither.
C25_SkipSetCoversSubtreesOnly ==
    /\ \A d \in GateDirs :
          should_skip_directory(gSkip, GatePath(gRoot, d))
              <=> CoveredInTree(gSkip, d)
    /\ gLast.why = "gate_skipset" => CoveredInTree(gLast.before, gLast.dir)

\* The last call was made for a directory that is readable, can be listed
\* and is not covered by the SkipSet.
LastCallOnReadable ==
    /\ gLast # NoCall
    /\ gLast.env \in {"ok", "probe_timeout"}
    /\ ~should_skip_directory(gLast.before, GatePath(gRoot, gLast.dir))

\* C26: for such a directory the probe takes at most 10 entries from the
\* listing however many there are; the gate returns False, with the
\* directory added to the SkipSet, only if the clock was past
\* timeout_seconds at one of those entries, and True otherwise; with
\* timeout_seconds = 0 nothing is probed and the gate returns True.
C26_ProbeIsBounded ==
    LastCallOnReadable =>
        /\ gLast.fetched <= 10
        /\ gLast.fetched <= gLast.entries
        /\ cfg.timeout_seconds = 0 => (gLast.fetched = 0 /\ gLast.granted)
        /\ ~gLast.granted =>
              /\ gLast.slow \in 1..gLast.fetched
              /\ gLast.why = "gate_timeout"
              /\ NormPath(GatePath(gRoot, gLast.dir)) \in gSkip
        /\ (gLast.slow = 0 \/ gLast.slow > gLast.fetched) => gLast.granted
        /\ gLast.granted => gSkip = gLast.before

\* C26 witness: a directory of more than 10 entries was probed and passed,
\* the clock running past timeout_seconds only after the probe had ended.
C26_Witness ==
    /\ LastCallOnReadable
    /\ cfg.timeout_seconds > 0
    /\ gLast.entries > 10
    /\ gLast.slow > gLast.fetched
    /\ gLast.fetched > 0
    /\ gLast.granted

\* One step of a RetryHandler: nothing leaves the SkipSet, a call that
\* returns True leaves it as it was and a call that returns False adds
\* nothing but the normalized path of its argument.
SkipSetStep ==
    /\ gSkip \subseteq gSkip'
    /\ gLast'.granted => gSkip' = gSkip
    /\ ~gLast'.granted =>
          gSkip' \ gSkip \subseteq {NormPath(GatePath(gRoot, gLast'.dir))}

\* C16: the SkipSet only grows; a call of handle_directory_access that
\* returns True leaves it unchanged and one that returns False adds at
\* most the normalized path of its own argument.
C16_SkipSetOnlyGrows == [][SkipSetStep]_vars

\* C16 witness: with two directories in the SkipSet, a call for a third
\* returned True and left the SkipSet as it was.
C16_Witness ==
    /\ Cardinality(gSkip) = 2
    /\ gLast.granted
    /\ gLast.before = gSkip
    /\ NormPath(GatePath(gRoot, gLast.dir)) \notin gSkip

-----------------------------------------------------------------------------
(* Claims about extract_archived_file and search_in_archives *)

IsZip(a) == EndsWith(Lower(a.name), ExtZip)

IsTar(a) == EndsWith(Lower(a.name), ExtTarGz) \/ EndsWith(Lower(a.name), ExtTgz)

Overfull(a) == (IsZip(a) \/ IsTar(a)) /\ a.entries > MaxArchiveEntries

UnsafeTar(a) == IsTar(a) /\ a.unsafe # "none"

\* The entries of results that come from the i-th archive of the tree.
ResultsFrom(i) ==
    {k \in 1..Len(aResults) :
        StartsWith(aResults[k].file, ArchivePath(i) \o <<":", ":">>)}

\* An archive that nothing but the entry count could speak against.
FullButSound(a) ==
    /\ IsZip(a) \/ IsTar(a)
    /\ a.entries = MaxArchiveEntries
    /\ a.valid /\ a.unsafe = "none"
    /\ a.size <= MaxFileSizeMb * MiB
    /\ a.total <= MaxFileSizeMb * MiB * SizeFactor

C9_OversizedArchiveRejected ==
    \A k \in 1..Len(aLog) :
        LET e == aLog[k]
            a == aTree[e.archive]
        IN  ((IsZip(a) \/ IsTar(a))
             /\ a.total > MaxFileSizeMb * MiB * SizeFactor) =>
                /\ e.outcome # "searched"
                /\ e.written = {}

\* The scratch root is there and nothing is in it.
ScratchRootFresh == aScratch = [root |-> "fresh", subs |-> <<>>]

ScenarioZip == Archive(ZipName, 1, 1, 1, "none", TRUE)

\* The file fields of the matches search_in_archives has collected.
ArchiveResultFiles == {aResults[k].file : k \in 1..Len(aResults)}

\* The path a match in member name of the i-th archive is reported under.
MemberPath(i, name) == ArchivePath(i) \o <<":", ":">> \o name

\* More than 5 x timeout_seconds have passed at time t since the call
\* of search_in_archives started, and timeout_seconds > 0.
PastFiveTimeouts(t) ==
    cfg.timeout_seconds > 0 /\ t - aStart > 5 * cfg.timeout_seconds

\* A step of the discovery adds archives only at the end of the list, and
\* none when the time it ends at is past the global timeout.
DiscoveryStep ==
    /\ Len(aArchives') >= Len(aArchives)
    /\ SubSeq(aArchives', 1, Len(aArchives)) = aArchives
    /\ (aPc = "discover" /\ PastFiveTimeouts(now')) => aArchives' = aArchives

\* Every discovered archive went through the loop over archives, in the
\* order of discovery, and with nothing failing each one that can be
\* extracted was searched, whether or not the global timeout had passed.
DiscoveredAreProcessed ==
    (aPc = "returned" /\ aCreated) =>
        /\ Len(aLog) = Len(aArchives)
        /\ \A k \in 1..Len(aArchives) :
              /\ aLog[k].archive = aArchives[k]
              /\ (faults = 0
                  /\ extract_archived_file(ArchivePath(aArchives[k]),
                                           aTree[aArchives[k]], "ok").ok) =>
                    aLog[k].outcome = "searched"

\* C20: once more than 5 x timeout_seconds have passed since the call of
\* search_in_archives, no archive is added to the discovered ones, and every
\* archive discovered before is still extracted and searched.
C20_GlobalTimeoutEndsDiscoveryOnly ==
    [][DiscoveryStep]_vars /\ []DiscoveredAreProcessed

\* C20 witness: the archive of the root was discovered, the global timeout
\* passed before the directory of the second archive was read, and the call
\* returned having searched the first archive and never listed the second.
C20_Witness ==
    /\ aPc = "returned" /\ aCreated /\ aTimedOut /\ faults = 0
    /\ aArchives = <<1>>
    /\ PastFiveTimeouts(now)
    /\ \E ext \in ArchiveExtensions : EndsWith(Lower(aTree[2].name), ext)
    /\ Len(aLog) = 1 /\ aLog[1].outcome = "searched" /\ aLog[1].matches > 0

\* C29: the archives are processed one after another, archive number k in
\* the scratch subdirectory archive_k, whose name no other archive of the
\* run uses and which does not exist before; the subdirectory of an
\* archive is gone before that of the next one is created, so that at most
\* one exists at any moment, also after an archive whose processing failed.
C29_OneScratchSubdirectoryAtATime ==
    /\ \A k \in 1..Len(aLog) :
          /\ aLog[k].archive = aArchives[k]
          /\ \A j \in 1..(k - 1) :
                /\ ArchiveTempDir(j) # ArchiveTempDir(k)
                /\ ~aLog[j].dirLeft
    /\ aPc = "process" => Cardinality(DOMAIN aScratch.subs) <= 1
    /\ (aPc = "process" /\ Len(aLog) < Len(aArchives)) =>
          DOMAIN aScratch.subs = {}

\* The archives of the tree that the loop over archives has taken up.
Processed == {aLog[k].archive : k \in 1..Len(aLog)}

Queued == {aArchives[k] : k \in 1..Len(aArchives)}

\* The name of the i-th archive ends with an extension that
\* excluded_extensions lists.
ExtensionExcluded(i) ==
    \E ext \in cfg.excluded_extensions :
        EndsWith(Lower(ArchivePath(i)), ext)

C11_ArchiveMatchPaths ==
    /\ (aPc = "returned" /\ aCreated /\ faults = 0 /\ ~aTimedOut) =>
          \A i \in ArchiveSlots :
              aTree[i] = ScenarioZip => MemberPath(i, InnerTxt) \in ArchiveResultFiles
    /\ \A f \in ArchiveResultFiles :
          /\ \E i \in ArchiveSlots, n \in {InnerTxt} :
                f = MemberPath(i, n)
          /\ ~StartsWith(f, TempDir)

-----------------------------------------------------------------------------
(* Claims about save_results and load_results *)

\* C12: when save_results returned a path and load_results has read the
\* file it wrote, the loaded match list, stats, pattern and directory are
\* the saved ones, field for field; when the file could not be read or
\* parsed, or is not there, load_results returned ([], {}, '', '').
C12_SaveLoadRoundTrip ==
    pPc = "loaded" =>
        /\ (/\ pFile # None
            /\ pDisk = [kind |-> "json", doc |-> json_dump(pArgs, Timestamp)]
            /\ ~pUnreadable) => pLoaded = pArgs
        /\ (pUnreadable \/ pDisk.kind # "json" \/ ~WellFormed(pDisk.doc))
              => pLoaded = LoadDefaults

\* C12 witness: matches whose context holds a quote and a backslash were
\* saved under a pattern with the same characters and loaded back.
C12_Witness ==
    /\ pPc = "loaded"
    /\ pFile # None
    /\ Len(pArgs.results) = 2
    /\ pArgs.results[2].context = <<Backslash, Quote>>
    /\ pArgs.search_pattern = <<Backslash, "n">>
    /\ ~pUnreadable
    /\ pLoaded = pArgs

=============================================================================
